---------------------------- MODULE Spec2Model ----------------------------
(***************************************************************************)
(* A model of the GFF3 reference-resolution engine of GMOD/gff-js          *)
(* (src/src/parse.ts, class Parser) and of the callers that drive it       *)
(* (parseStringSync and GFFTransformer).                                   *)
(*                                                                         *)
(* JavaScript objects have identity: a GFF3Feature is an array shared by   *)
(* the by-ID map, the top-level queue, the orphan map and the child lists  *)
(* of other features, and a feature line object may sit in several         *)
(* features.  The model keeps two arenas, lineObjs (the feature line       *)
(* objects) and feats (the feature arrays, sequences of indices into       *)
(* lineObjs); every reference in the program is an index in the model.     *)
(***************************************************************************)
EXTENDS Integers, Sequences, FiniteSets, TLC

\* ------------------------------------------------------------------ bounds

\* the number of addLine calls a behaviour makes
MaxLines == 4

\* the largest finite bufferSize a parser is constructed with
MaxBuf == 2

\* bufferSize: Infinity (parseStringSync, and the default of GFFTransformer)
Infinity == -1

\* ------------------------------------------------------------ input lines

IDs == {"a", "b", "c"}

\* A line of input, abstracted to what the parser reads of it:
\*   first      the class of its first non-whitespace character
\*              ("other", "hash", "gt", or "none" for a blank line)
\*   lead       whether whitespace precedes that character
\*   hashes     the length of the run of '#' that starts it
\*   directive  the name parseDirective reads after '##' ("" when none)
\*   seqid      the identifier after '>' ("" when none)
\*   type       column 3
\*   ID, Parent, Derives_from   the values of these attributes of column 9
\*   text       the line with its whitespace removed
Line(first, hashes, directive, seqid, type, ids, parents, derives, text) ==
    [first |-> first, lead |-> FALSE, hashes |-> hashes, directive |-> directive,
     seqid |-> seqid, type |-> type, ID |-> ids, Parent |-> parents,
     Derives_from |-> derives, text |-> text]

FeatureText(type, ids, parents, derives) ==
    <<ToString(<<type, ids, parents, derives>>)>>

Feat(type, ids, parents, derives) ==
    Line("other", 0, "", "", type, ids, parents, derives,
         FeatureText(type, ids, parents, derives))

SyncLine == Line("hash", 3, "", "", "", <<>>, <<>>, <<>>, <<"###">>)
FastaDirectiveLine == Line("hash", 2, "FASTA", "", "", <<>>, <<>>, <<>>, <<"##FASTA">>)
VersionDirectiveLine ==
    Line("hash", 2, "gff-version", "", "", <<>>, <<>>, <<>>, <<"##gff-version3">>)
CommentLine == Line("hash", 1, "", "", "", <<>>, <<>>, <<>>, <<"#note">>)
BlankLine == Line("none", 0, "", "", "", <<>>, <<>>, <<>>, <<>>)
HeaderLine == Line("gt", 0, "", "s1", "", <<>>, <<>>, <<>>, <<">s1">>)

\* The feature lines the caller may feed the engine.
ParserFeatureLines ==
    { Feat("gene", <<>>, <<>>, <<>>),
      Feat("gene", <<"a">>, <<>>, <<>>),
      Feat("mRNA", <<"a">>, <<>>, <<>>),
      Feat("gene", <<"b">>, <<>>, <<>>),
      Feat("gene", <<"c">>, <<>>, <<>>),
      Feat("gene", <<"b">>, <<"a">>, <<>>),
      Feat("gene", <<"c">>, <<>>, <<"a">>),
      Feat("gene", <<>>, <<"b">>, <<>>) }

ParserLines == ParserFeatureLines \cup {SyncLine, FastaDirectiveLine}

\* Lines of a FASTA section: two headers, a header after leading whitespace,
\* a '>' with no identifier, and a line of residues
SecondHeaderLine == Line("gt", 0, "", "s2", "", <<>>, <<>>, <<>>, <<">s2">>)
IndentedHeaderLine == [HeaderLine EXCEPT !.lead = TRUE]
BareHeaderLine == Line("gt", 0, "", "", "", <<>>, <<>>, <<>>, <<">">>)
ResidueLine == Line("other", 0, "", "", "", <<>>, <<>>, <<>>, <<"ACGT">>)

\* The lines of a text that is parsed, formatted and parsed again: a gene at
\* two locations, a child of it, a child of both, a child without an ID, and
\* a sequence
RoundTripLines ==
    { Line("other", 0, "", "", "gene", <<"a">>, <<>>, <<>>, <<"gene", "a", "1..5">>),
      Line("other", 0, "", "", "gene", <<"a">>, <<>>, <<>>, <<"gene", "a", "7..9">>),
      Feat("mRNA", <<"b">>, <<"a">>, <<>>),
      Feat("exon", <<"c">>, <<"a", "b">>, <<>>),
      Feat("exon", <<>>, <<"b">>, <<>>),
      HeaderLine, ResidueLine }

\* The lines fed to a parser to see what it makes of Derives_from: with an
\* ID, with a Parent, and as the only reference of a line without an ID
DerivesLines ==
    { Feat("gene", <<"a">>, <<>>, <<>>),
      Feat("gene", <<"c">>, <<>>, <<"a">>),
      Feat("gene", <<"b">>, <<>>, <<"c">>),
      Feat("gene", <<>>, <<>>, <<"b">>),
      Feat("gene", <<>>, <<"a">>, <<"b">>),
      SyncLine }

\* The lines of Features that are formatted: a gene at two locations, a
\* Feature that is its child and is derived from it, and a child of both
FormatLines ==
    { Line("other", 0, "", "", "gene", <<"a">>, <<>>, <<>>, <<"gene", "a", "1..5">>),
      Line("other", 0, "", "", "gene", <<"a">>, <<>>, <<>>, <<"gene", "a", "7..9">>),
      Feat("mRNA", <<"b">>, <<"a">>, <<"a">>),
      Feat("exon", <<>>, <<"a", "b">>, <<>>),
      SyncLine }

\* Lines that start with one, two, three and four '#', and a ### after
\* leading whitespace, with feature lines to be flushed
FourHashLine == Line("hash", 4, "", "", "", <<>>, <<>>, <<>>, <<"####">>)
IndentedSyncLine == [SyncLine EXCEPT !.lead = TRUE]

HashLines ==
    { Feat("gene", <<"a">>, <<>>, <<>>),
      Feat("gene", <<"b">>, <<"a">>, <<>>),
      CommentLine, VersionDirectiveLine, SyncLine, IndentedSyncLine, FourHashLine }

\* Feature lines whose references lead back to themselves: a line that
\* names its own ID as Parent, and two lines that name each other
CycleLines ==
    { Feat("gene", <<"a">>, <<>>, <<>>),
      Feat("gene", <<"a">>, <<"a">>, <<>>),
      Feat("gene", <<"b">>, <<"c">>, <<>>),
      Feat("gene", <<"c">>, <<>>, <<"b">>),
      SyncLine }

\* Feature lines of which one carries two ID values
MultiIdLines ==
    { Feat("gene", <<"b">>, <<>>, <<>>),
      Feat("gene", <<"b", "c">>, <<>>, <<>>),
      Feat("gene", <<"a">>, <<"c">>, <<>>),
      Feat("gene", <<>>, <<"c">>, <<>>),
      Feat("gene", <<>>, <<"b">>, <<>>),
      SyncLine }

\* The lines fed to a parser whose input has a FASTA section.
FastaLines ==
    { Feat("gene", <<"a">>, <<>>, <<>>),
      Feat("gene", <<"b">>, <<"a">>, <<>>),
      SyncLine, FastaDirectiveLine, VersionDirectiveLine, CommentLine, BlankLine,
      HeaderLine, SecondHeaderLine, IndentedHeaderLine, BareHeaderLine, ResidueLine }

\* ---------------------------------------------------------------- callbacks

\* ParseCallbacks: which callbacks the caller passes, and what its
\* errorCallback does ("throws": parseStringSync; "returns": GFFTransformer,
\* whose callback calls controller.error; "absent": none given).
ErrorCallbacks == {"throws", "returns", "absent"}

Callbacks ==
    { [featureCallback |-> TRUE, directiveCallback |-> TRUE, commentCallback |-> TRUE,
       sequenceCallback |-> TRUE, errorCallback |-> e] : e \in ErrorCallbacks }

NoCallbacks ==
    [featureCallback |-> FALSE, directiveCallback |-> FALSE, commentCallback |-> FALSE,
     sequenceCallback |-> FALSE, errorCallback |-> "absent"]

\* ------------------------------------------------------------------- state

VARIABLES
    alphabet,                      \* the lines the caller draws its input from
    bufferSize,                    \* Parser.bufferSize
    disableDerivesFromReferences,  \* Parser.disableDerivesFromReferences
    eof,                           \* Parser.eof
    lineNumber,                    \* Parser.lineNumber
    fastaParser,                   \* Parser.fastaParser
    underConstructionTopLevel,     \* sequence of feature indices
    underConstructionById,         \* ID -> feature index, 0 when undefined
    completedReferences,           \* set of <<id, attribute, toId>>
    underConstructionOrphans,      \* insertion-ordered map, as a sequence
    lineObjs,                      \* arena of GFF3FeatureLineWithRefs objects
    feats,                         \* arena of GFF3Feature arrays
    log,                           \* the callback invocations, in order
    raised,                        \* the exceptions thrown to the caller
    hung,                          \* a call that never returns was made
    calls,                         \* the number of addLine calls made
    finished,                      \* finish was called
    lastCall,                      \* the call made last and how it ended
    enqueued,                      \* history: features pushed on the queue
    evictedAt,                     \* history: ID -> lineNumber of its last eviction
    scopeMark,                     \* history: lineNumber at the last flush
    rawVal,                        \* util: the string the caller started from
    stringVal,                     \* util: what the calls made of the string
    applied,                       \* util: the functions called, in order
    linesSinceLastSyncMark,        \* formatter: linesSinceLastSyncMark
    haveWeEmittedData,             \* formatter: haveWeEmittedData
    fastaMode,                     \* formatter: fastaMode
    minLinesBetweenSyncMarks,      \* formatter: minLinesBetweenSyncMarks
    insertVersionDirective,        \* formatter: insertVersionDirective
    pushed,                        \* formatter: the strings it enqueued, in order
    chunks                         \* history: the items it was handed, in order

vars ==
    <<alphabet, bufferSize, disableDerivesFromReferences, eof, lineNumber,
      fastaParser, underConstructionTopLevel, underConstructionById,
      completedReferences, underConstructionOrphans, lineObjs, feats, log,
      raised, hung, calls, finished, lastCall, enqueued, evictedAt, scopeMark,
      rawVal, stringVal, applied,
      linesSinceLastSyncMark, haveWeEmittedData, fastaMode,
      minLinesBetweenSyncMarks, insertVersionDirective, pushed, chunks>>

\* the parser, its objects, its caller and the history kept of them
parserVars ==
    <<alphabet, bufferSize, disableDerivesFromReferences, eof, lineNumber,
      fastaParser, underConstructionTopLevel, underConstructionById,
      completedReferences, underConstructionOrphans, lineObjs, feats, log,
      raised, hung, calls, finished, lastCall, enqueued, evictedAt, scopeMark>>

\* the strings the low-level functions of util.ts are applied to
utilVars == <<rawVal, stringVal, applied>>

\* the formatting transformer, what it wrote and what it was handed
formatVars ==
    <<linesSinceLastSyncMark, haveWeEmittedData, fastaMode,
      minLinesBetweenSyncMarks, insertVersionDirective, pushed, chunks>>

\* the fields of the Parser object and the objects it refers to
engineVars ==
    <<eof, lineNumber, fastaParser, underConstructionTopLevel,
      underConstructionById, completedReferences, underConstructionOrphans,
      lineObjs, feats>>

\* ----------------------------------------------------------------- helpers

Range(s) == { s[i] : i \in 1..Len(s) }

RECURSIVE SeqConcat(_)
SeqConcat(ss) == IF ss = <<>> THEN <<>> ELSE Head(ss) \o SeqConcat(Tail(ss))

NoExc == [kind |-> "none", ids |-> <<>>, line |-> 0]

NoSequence == [defined |-> FALSE, id |-> "", sequence |-> <<>>]

NoFastaParser == [exists |-> FALSE, seqCallback |-> FALSE, currentSequence |-> NoSequence]

\* the Parser object and the heap it refers to, threaded through the methods
Self ==
    [eof |-> eof, lineNumber |-> lineNumber, fastaParser |-> fastaParser,
     underConstructionTopLevel |-> underConstructionTopLevel,
     underConstructionById |-> underConstructionById,
     completedReferences |-> completedReferences,
     underConstructionOrphans |-> underConstructionOrphans,
     lineObjs |-> lineObjs, feats |-> feats, log |-> log,
     exc |-> NoExc, hung |-> FALSE, asked |-> "unused",
     enqueued |-> enqueued, evictedAt |-> evictedAt, scopeMark |-> scopeMark]

\* a method goes on only while nothing was thrown and nothing spins
Running(s) == s.exc.kind = "none" /\ ~s.hung


\* ------------------------------------------------------------------ engine

\* the referential-integrity error of emitAllUnderConstructionFeatures
ReferentialIntegrityError(ids, n) ==
    [kind |-> "ReferentialIntegrity", ids |-> ids, line |-> n]

\* the Error a throwing errorCallback raises with parseError's message
TypeMismatchError(n, id) == [kind |-> "TypeMismatch", ids |-> <<id>>, line |-> n]

\* the engine's stack overflows on a cyclic child list
RangeError(n) == [kind |-> "RangeError", ids |-> <<>>, line |-> n]

\* emitItem that hands a feature to directiveCallback when there is no
\* featureCallback
emitItemFallingThrough(s, f, callbacks) ==
    IF callbacks.featureCallback
    THEN [s EXCEPT !.log = Append(@, [cb |-> "featureCallback", arg |-> f])]
    ELSE IF callbacks.directiveCallback
    THEN [s EXCEPT !.log = Append(@, [cb |-> "directiveCallback", arg |-> f])]
    ELSE s

\* Parser.emitItem: hands a feature to featureCallback when there is one
emitItem(s, f, callbacks) ==
    IF callbacks.featureCallback
    THEN [s EXCEPT !.log = Append(@, [cb |-> "featureCallback", arg |-> f])]
    ELSE s

emitDirective(s, name, callbacks) ==
    IF callbacks.directiveCallback
    THEN [s EXCEPT !.log = Append(@, [cb |-> "directiveCallback", arg |-> name])]
    ELSE s

emitComment(s, text, callbacks) ==
    IF callbacks.commentCallback
    THEN [s EXCEPT !.log = Append(@, [cb |-> "commentCallback", arg |-> text])]
    ELSE s

\* the child and derived features of a feature, location by location
Kids(s, item) ==
    SeqConcat([ i \in 1..Len(s.feats[item]) |->
        s.lineObjs[s.feats[item][i]].child_features
            \o s.lineObjs[s.feats[item][i]].derived_features ])

\* the ID attribute of a feature's first location
FirstIds(s, item) == s.lineObjs[s.feats[item][1]].ID

RECURSIVE unbufferItem(_, _, _)
RECURSIVE unbufferItems(_, _, _)

\* _unbufferItem of enforceBufferSizeLimit.  path holds the features whose
\* call is on the stack: meeting one of them again recurses without end.
unbufferItem(s, item, path) ==
    IF ~Running(s) THEN s
    ELSE IF FirstIds(s, item) = <<>> THEN s
    ELSE IF item \in path THEN [s EXCEPT !.exc = RangeError(s.lineNumber)]
    ELSE LET ids == Range(FirstIds(s, item))
             del == [s EXCEPT
                       !.underConstructionById =
                           [id \in IDs |-> IF id \in ids THEN 0 ELSE @[id]],
                       !.completedReferences = { r \in @ : r[1] \notin ids },
                       !.evictedAt =
                           [id \in IDs |-> IF id \in ids THEN s.lineNumber ELSE @[id]]]
         IN  unbufferItems(del, Kids(s, item), path \cup {item})

unbufferItems(s, items, path) ==
    IF items = <<>> \/ ~Running(s) THEN s
    ELSE unbufferItems(unbufferItem(s, Head(items), path), Tail(items), path)

\* the loop test of enforceBufferSizeLimit that lets one Feature more stay
ExceedsByTwo(n, size) == size # Infinity /\ n > size + 1

Exceeds(n, size) == size # Infinity /\ n > size

RECURSIVE enforceBufferSizeLimitNewestFirst(_, _, _)

\* enforceBufferSizeLimit that takes the newest feature of the queue
enforceBufferSizeLimitNewestFirst(s, additionalItemCount, callbacks) ==
    IF ~Running(s) THEN s
    ELSE IF ~Exceeds(Len(s.underConstructionTopLevel) + additionalItemCount, bufferSize)
    THEN s
    ELSE IF s.underConstructionTopLevel = <<>> THEN [s EXCEPT !.hung = TRUE]
    ELSE LET n == Len(s.underConstructionTopLevel)
             item == s.underConstructionTopLevel[n]
             popped == [s EXCEPT !.underConstructionTopLevel = SubSeq(@, 1, n - 1)]
         IN  enforceBufferSizeLimitNewestFirst(
                 unbufferItem(emitItem(popped, item, callbacks), item, {}),
                 additionalItemCount, callbacks)

RECURSIVE enforceBufferSizeLimit(_, _, _)

\* Parser.enforceBufferSizeLimit.  shift() of an empty queue yields undefined,
\* and the loop then runs on without end.
enforceBufferSizeLimit(s, additionalItemCount, callbacks) ==
    IF ~Running(s) THEN s
    ELSE IF ~Exceeds(Len(s.underConstructionTopLevel) + additionalItemCount, bufferSize)
    THEN s
    ELSE IF s.underConstructionTopLevel = <<>> THEN [s EXCEPT !.hung = TRUE]
    ELSE LET item == Head(s.underConstructionTopLevel)
             shifted == [s EXCEPT !.underConstructionTopLevel = Tail(@)]
         IN  enforceBufferSizeLimit(
                 unbufferItem(emitItem(shifted, item, callbacks), item, {}),
                 additionalItemCount, callbacks)

OrphanKeys(orphans) == [ i \in 1..Len(orphans) |-> orphans[i].id ]

RECURSIVE emitAll(_, _, _)
emitAll(s, items, callbacks) ==
    IF items = <<>> THEN s
    ELSE emitAll(emitItem(s, Head(items), callbacks), Tail(items), callbacks)

\* emitAllUnderConstructionFeatures whose error names the first orphan key only
emitAllUnderConstructionFeaturesFirstKey(s, callbacks) ==
    LET emitted == emitAll(s, s.underConstructionTopLevel, callbacks)
        cleared == [emitted EXCEPT
                      !.underConstructionTopLevel = <<>>,
                      !.underConstructionById = [id \in IDs |-> 0],
                      !.completedReferences = {},
                      !.scopeMark = s.lineNumber]
    IN  IF Len(s.underConstructionOrphans) # 0
        THEN [cleared EXCEPT
                !.exc = ReferentialIntegrityError(
                            <<s.underConstructionOrphans[1].id>>, s.lineNumber)]
        ELSE cleared

\* emitAllUnderConstructionFeatures that leaves the by-ID map as it is
emitAllUnderConstructionFeaturesKeepingById(s, callbacks) ==
    LET emitted == emitAll(s, s.underConstructionTopLevel, callbacks)
        cleared == [emitted EXCEPT
                      !.underConstructionTopLevel = <<>>,
                      !.completedReferences = {},
                      !.scopeMark = s.lineNumber]
    IN  IF Len(s.underConstructionOrphans) # 0
        THEN [cleared EXCEPT
                !.exc = ReferentialIntegrityError(
                            OrphanKeys(s.underConstructionOrphans), s.lineNumber)]
        ELSE cleared

\* emitAllUnderConstructionFeatures that leaves the completed links as they are
emitAllUnderConstructionFeaturesKeepingLinks(s, callbacks) ==
    LET emitted == emitAll(s, s.underConstructionTopLevel, callbacks)
        cleared == [emitted EXCEPT
                      !.underConstructionTopLevel = <<>>,
                      !.underConstructionById = [id \in IDs |-> 0],
                      !.scopeMark = s.lineNumber]
    IN  IF Len(s.underConstructionOrphans) # 0
        THEN [cleared EXCEPT
                !.exc = ReferentialIntegrityError(
                            OrphanKeys(s.underConstructionOrphans), s.lineNumber)]
        ELSE cleared

\* emitAllUnderConstructionFeatures that leaves the top-level queue as it is
emitAllUnderConstructionFeaturesKeepingQueue(s, callbacks) ==
    LET emitted == emitAll(s, s.underConstructionTopLevel, callbacks)
        cleared == [emitted EXCEPT
                      !.underConstructionById = [id \in IDs |-> 0],
                      !.completedReferences = {},
                      !.scopeMark = s.lineNumber]
    IN  IF Len(s.underConstructionOrphans) # 0
        THEN [cleared EXCEPT
                !.exc = ReferentialIntegrityError(
                            OrphanKeys(s.underConstructionOrphans), s.lineNumber)]
        ELSE cleared

\* Parser.emitAllUnderConstructionFeatures
emitAllUnderConstructionFeatures(s, callbacks) ==
    LET emitted == emitAll(s, s.underConstructionTopLevel, callbacks)
        cleared == [emitted EXCEPT
                      !.underConstructionTopLevel = <<>>,
                      !.underConstructionById = [id \in IDs |-> 0],
                      !.completedReferences = {},
                      !.scopeMark = s.lineNumber]
    IN  IF Len(s.underConstructionOrphans) # 0
        THEN [cleared EXCEPT
                !.exc = ReferentialIntegrityError(
                            OrphanKeys(s.underConstructionOrphans), s.lineNumber)]
        ELSE cleared

\* parseError that numbers its message with the line before
parseErrorPreviousLine(s, id, types, callbacks) ==
    LET stopped == [s EXCEPT !.eof = TRUE, !.asked = callbacks.errorCallback]
        message == [line |-> s.lineNumber - 1, id |-> id, types |-> types]
        called == [stopped EXCEPT
                     !.log = Append(@, [cb |-> "errorCallback", arg |-> message])]
    IN  CASE callbacks.errorCallback = "absent" -> stopped
          [] callbacks.errorCallback = "returns" -> called
          [] callbacks.errorCallback = "throws" ->
                 [called EXCEPT !.exc = TypeMismatchError(s.lineNumber - 1, id)]

\* parseError that leaves eof as it is
parseErrorGoingOn(s, id, types, callbacks) ==
    LET stopped == [s EXCEPT !.asked = callbacks.errorCallback]
        message == [line |-> s.lineNumber, id |-> id, types |-> types]
        called == [stopped EXCEPT
                     !.log = Append(@, [cb |-> "errorCallback", arg |-> message])]
    IN  CASE callbacks.errorCallback = "absent" -> stopped
          [] callbacks.errorCallback = "returns" -> called
          [] callbacks.errorCallback = "throws" ->
                 [called EXCEPT !.exc = TypeMismatchError(s.lineNumber, id)]

\* Parser.parseError
parseError(s, id, types, callbacks) ==
    LET stopped == [s EXCEPT !.eof = TRUE, !.asked = callbacks.errorCallback]
        message == [line |-> s.lineNumber, id |-> id, types |-> types]
        called == [stopped EXCEPT
                     !.log = Append(@, [cb |-> "errorCallback", arg |-> message])]
    IN  CASE callbacks.errorCallback = "absent" -> stopped
          [] callbacks.errorCallback = "returns" -> called
          [] callbacks.errorCallback = "throws" ->
                 [called EXCEPT !.exc = TypeMismatchError(s.lineNumber, id)]

\* push fs on the child_features (attr = "Parent") or derived_features of
\* each location of feature g, one location after the other
RECURSIVE pushRefs(_, _, _, _)
pushRefs(objs, locs, attr, fs) ==
    IF locs = <<>> THEN objs
    ELSE pushRefs(
             IF attr = "Parent"
             THEN [objs EXCEPT ![Head(locs)].child_features = @ \o fs]
             ELSE [objs EXCEPT ![Head(locs)].derived_features = @ \o fs],
             Tail(locs), attr, fs)

OrphanIndex(orphans, id) ==
    IF \E i \in 1..Len(orphans) : orphans[i].id = id
    THEN CHOOSE i \in 1..Len(orphans) : orphans[i].id = id
    ELSE 0

RemoveAt(seq, i) == SubSeq(seq, 1, i - 1) \o SubSeq(seq, i + 1, Len(seq))

\* resolveReferencesTo that drops the waiting orphans instead of attaching them
resolveReferencesToDropping(s, feature, id) ==
    LET k == OrphanIndex(s.underConstructionOrphans, id)
    IN  IF k = 0 THEN s
        ELSE [s EXCEPT !.underConstructionOrphans = RemoveAt(@, k)]

\* Parser.resolveReferencesTo
resolveReferencesTo(s, feature, id) ==
    LET k == OrphanIndex(s.underConstructionOrphans, id)
    IN  IF k = 0 THEN s
        ELSE LET references == s.underConstructionOrphans[k]
                 withChildren ==
                     pushRefs(s.lineObjs, s.feats[feature], "Parent", references.Parent)
                 withDerived ==
                     pushRefs(withChildren, s.feats[feature], "Derives_from",
                              references.Derives_from)
             IN  [s EXCEPT !.lineObjs = withDerived,
                           !.underConstructionOrphans = RemoveAt(@, k)]

\* one iteration of a forEach of Parser.resolveReferencesFrom; postSet marks
\* <<id, attr, toId>> for every id and tells whether one was marked before
resolveReference(s, feature, attr, toId, ids) ==
    LET otherFeature == s.underConstructionById[toId]
        marks == { <<ids[i], attr, toId>> : i \in 1..Len(ids) }
        seen == \/ marks \cap s.completedReferences # {}
                \/ \E i, j \in 1..Len(ids) : i < j /\ ids[i] = ids[j]
        k == OrphanIndex(s.underConstructionOrphans, toId)
        orphans == IF k # 0 THEN s.underConstructionOrphans
                   ELSE Append(s.underConstructionOrphans,
                               [id |-> toId, Parent |-> <<>>, Derives_from |-> <<>>])
        at == IF k # 0 THEN k ELSE Len(orphans)
    IN  IF otherFeature # 0
        THEN [s EXCEPT
                !.completedReferences = @ \cup marks,
                !.lineObjs = IF seen THEN @
                             ELSE pushRefs(@, s.feats[otherFeature], attr, <<feature>>)]
        ELSE [s EXCEPT
                !.underConstructionOrphans =
                    IF attr = "Parent"
                    THEN [orphans EXCEPT ![at].Parent = Append(@, feature)]
                    ELSE [orphans EXCEPT ![at].Derives_from = Append(@, feature)]]

RECURSIVE resolveEach(_, _, _, _, _)
resolveEach(s, feature, attr, toIds, ids) ==
    IF toIds = <<>> THEN s
    ELSE resolveEach(resolveReference(s, feature, attr, Head(toIds), ids),
                     feature, attr, Tail(toIds), ids)

\* resolveReferencesFrom that follows the Parent references only
resolveReferencesFromParentsOnly(s, feature, references, ids) ==
    resolveEach(s, feature, "Parent", references.Parent, ids)

\* Parser.resolveReferencesFrom
resolveReferencesFrom(s, feature, references, ids) ==
    resolveEach(resolveEach(s, feature, "Parent", references.Parent, ids),
                feature, "Derives_from", references.Derives_from, ids)

\* a new array in the feature arena
NewFeature(s, locs) == [s EXCEPT !.feats = Append(@, locs)]

\* the iteration of bufferLine that puts a further location in front of the
\* locations the Feature has
bufferIdPrepending(st, id, n, parents, derives, callbacks) ==
    LET s == st.s
        existing == s.underConstructionById[id]
        lastType == s.lineObjs[s.feats[existing][Len(s.feats[existing])]].type
        newType == s.lineObjs[n].type
        checked == IF lastType # newType
                   THEN parseError(s, id, <<newType, lastType>>, callbacks)
                   ELSE s
        created == NewFeature(s, <<n>>)
        g == Len(created.feats)
        limited == enforceBufferSizeLimit(created, 1, callbacks)
        queued == IF parents = <<>> /\ derives = <<>>
                  THEN [limited EXCEPT !.underConstructionTopLevel = Append(@, g),
                                       !.enqueued = Append(@, g)]
                  ELSE limited
        indexed == [queued EXCEPT !.underConstructionById[id] = g]
    IN  IF ~Running(s) THEN st
        ELSE IF existing # 0
        THEN IF Running(checked)
             THEN [s |-> [checked EXCEPT !.feats[existing] = <<n>> \o @],
                   feature |-> existing]
             ELSE [s |-> checked, feature |-> st.feature]
        ELSE IF Running(limited)
             THEN [s |-> resolveReferencesTo(indexed, g, id), feature |-> g]
             ELSE [s |-> limited, feature |-> g]

\* one iteration of ids.forEach of Parser.bufferLine; st.feature is the
\* closure's variable feature (0: undefined), n the new feature line object
bufferId(st, id, n, parents, derives, callbacks) ==
    LET s == st.s
        existing == s.underConstructionById[id]
        lastType == s.lineObjs[s.feats[existing][Len(s.feats[existing])]].type
        newType == s.lineObjs[n].type
        checked == IF lastType # newType
                   THEN parseError(s, id, <<newType, lastType>>, callbacks)
                   ELSE s
        created == NewFeature(s, <<n>>)
        g == Len(created.feats)
        limited == enforceBufferSizeLimit(created, 1, callbacks)
        queued == IF parents = <<>> /\ derives = <<>>
                  THEN [limited EXCEPT !.underConstructionTopLevel = Append(@, g),
                                       !.enqueued = Append(@, g)]
                  ELSE limited
        indexed == [queued EXCEPT !.underConstructionById[id] = g]
    IN  IF ~Running(s) THEN st
        ELSE IF existing # 0
        THEN IF Running(checked)
             THEN [s |-> [checked EXCEPT !.feats[existing] = Append(@, n)],
                   feature |-> existing]
             ELSE [s |-> checked, feature |-> st.feature]
        ELSE IF Running(limited)
             THEN [s |-> resolveReferencesTo(indexed, g, id), feature |-> g]
             ELSE [s |-> limited, feature |-> g]

RECURSIVE bufferIds(_, _, _, _, _, _)
bufferIds(st, ids, n, parents, derives, callbacks) ==
    IF ids = <<>> THEN st
    ELSE bufferIds(bufferId(st, Head(ids), n, parents, derives, callbacks),
                   Tail(ids), n, parents, derives, callbacks)

\* bufferLine that reads Derives_from whatever disableDerivesFromReferences is
bufferLineDeriving(s, line, callbacks) ==
    LET featureLine == [no |-> s.lineNumber, type |-> line.type, ID |-> line.ID,
                        Parent |-> line.Parent, Derives_from |-> line.Derives_from,
                        text |-> line.text,
                        child_features |-> <<>>, derived_features |-> <<>>]
        alloc == [s EXCEPT !.lineObjs = Append(@, featureLine)]
        n == Len(alloc.lineObjs)
        ids == line.ID
        parents == line.Parent
        derives == line.Derives_from
        single == NewFeature(alloc, <<n>>)
        st == bufferIds([s |-> alloc, feature |-> 0], ids, n, parents, derives, callbacks)
        own == IF st.feature # 0 THEN st.s ELSE NewFeature(st.s, <<n>>)
        feature == IF st.feature # 0 THEN st.feature ELSE Len(own.feats)
    IN  IF ids = <<>> /\ parents = <<>> /\ derives = <<>>
        THEN emitItem(single, Len(single.feats), callbacks)
        ELSE IF ~Running(st.s) THEN st.s
        ELSE resolveReferencesFrom(own, feature,
                                   [Parent |-> parents, Derives_from |-> derives], ids)

\* bufferLine without the shortcut for a line that has no ID and refers to
\* nothing: the line is buffered like any other
bufferLineQueueing(s, line, callbacks) ==
    LET featureLine == [no |-> s.lineNumber, type |-> line.type, ID |-> line.ID,
                        Parent |-> line.Parent, Derives_from |-> line.Derives_from,
                        text |-> line.text,
                        child_features |-> <<>>, derived_features |-> <<>>]
        alloc == [s EXCEPT !.lineObjs = Append(@, featureLine)]
        n == Len(alloc.lineObjs)
        ids == line.ID
        parents == line.Parent
        derives == IF disableDerivesFromReferences THEN <<>> ELSE line.Derives_from
        st == bufferIds([s |-> alloc, feature |-> 0], ids, n, parents, derives, callbacks)
        own == IF st.feature # 0 THEN st.s ELSE NewFeature(st.s, <<n>>)
        feature == IF st.feature # 0 THEN st.feature ELSE Len(own.feats)
        queued == IF ids = <<>> /\ parents = <<>> /\ derives = <<>>
                  THEN [own EXCEPT !.underConstructionTopLevel = Append(@, feature)]
                  ELSE own
    IN  IF ~Running(st.s) THEN st.s
        ELSE resolveReferencesFrom(queued, feature,
                                   [Parent |-> parents, Derives_from |-> derives], ids)

\* Parser.bufferLine
bufferLine(s, line, callbacks) ==
    LET featureLine == [no |-> s.lineNumber, type |-> line.type, ID |-> line.ID,
                        Parent |-> line.Parent, Derives_from |-> line.Derives_from,
                        text |-> line.text,
                        child_features |-> <<>>, derived_features |-> <<>>]
        alloc == [s EXCEPT !.lineObjs = Append(@, featureLine)]
        n == Len(alloc.lineObjs)
        ids == line.ID
        parents == line.Parent
        derives == IF disableDerivesFromReferences THEN <<>> ELSE line.Derives_from
        single == NewFeature(alloc, <<n>>)
        st == bufferIds([s |-> alloc, feature |-> 0], ids, n, parents, derives, callbacks)
        own == IF st.feature # 0 THEN st.s ELSE NewFeature(st.s, <<n>>)
        feature == IF st.feature # 0 THEN st.feature ELSE Len(own.feats)
    IN  IF ids = <<>> /\ parents = <<>> /\ derives = <<>>
        THEN emitItem(single, Len(single.feats), callbacks)
        ELSE IF ~Running(st.s) THEN st.s
        ELSE resolveReferencesFrom(own, feature,
                                   [Parent |-> parents, Derives_from |-> derives], ids)

\* ------------------------------------------------------------ FASTA parser

\* FASTAParser.flush
fastaFlush(s) ==
    IF s.fastaParser.currentSequence.defined /\ s.fastaParser.seqCallback
    THEN [s EXCEPT !.log = Append(@, [cb |-> "sequenceCallback",
                                       arg |-> s.fastaParser.currentSequence])]
    ELSE s

\* FASTAParser.addLine
fastaAddLine(s, line) ==
    IF line.first = "gt" /\ ~line.lead /\ line.seqid # ""
    THEN [fastaFlush(s) EXCEPT
            !.fastaParser.currentSequence =
                [defined |-> TRUE, id |-> line.seqid, sequence |-> <<>>]]
    ELSE IF s.fastaParser.currentSequence.defined /\ line.first # "none"
    THEN [s EXCEPT !.fastaParser.currentSequence.sequence = @ \o line.text]
    ELSE s

\* the switch to FASTA mode that hands the FASTA directive to directiveCallback
startFastaEmittingDirective(s, callbacks) ==
    [emitDirective(s, "FASTA", callbacks) EXCEPT
        !.eof = TRUE,
        !.fastaParser = [exists |-> TRUE,
                         seqCallback |-> callbacks.sequenceCallback,
                         currentSequence |-> NoSequence]]

\* new FASTAParser(callbacks.sequenceCallback)
startFasta(s, callbacks) ==
    [s EXCEPT !.eof = TRUE,
              !.fastaParser = [exists |-> TRUE,
                               seqCallback |-> callbacks.sequenceCallback,
                               currentSequence |-> NoSequence]]

\* ------------------------------------------------------- addLine and finish

\* addLine that takes every run of three or more '#' for a sync mark
addLineThreeOrMore(s, line, callbacks) ==
    LET counted == [s EXCEPT !.lineNumber = @ + 1]
        flushed == emitAllUnderConstructionFeatures(counted, callbacks)
    IN  IF s.fastaParser.exists THEN fastaAddLine(s, line)
        ELSE IF s.eof THEN s
        ELSE IF line.first = "other" THEN bufferLine(counted, line, callbacks)
        ELSE IF line.first = "hash"
        THEN IF line.hashes >= 3 THEN flushed
             ELSE IF line.hashes = 2
             THEN IF line.directive = "" THEN counted
                  ELSE IF line.directive = "FASTA"
                  THEN IF Running(flushed) THEN startFasta(flushed, callbacks)
                       ELSE flushed
                  ELSE emitDirective(counted, line.directive, callbacks)
             ELSE emitComment(counted, line.text, callbacks)
        ELSE IF line.first = "none" THEN counted
        ELSE IF Running(flushed)
             THEN fastaAddLine(startFasta(flushed, callbacks), line)
             ELSE flushed

\* Parser.addLine
addLine(s, line, callbacks) ==
    LET counted == [s EXCEPT !.lineNumber = @ + 1]
        flushed == emitAllUnderConstructionFeatures(counted, callbacks)
    IN  IF s.fastaParser.exists THEN fastaAddLine(s, line)
        ELSE IF s.eof THEN s
        ELSE IF line.first = "other" THEN bufferLine(counted, line, callbacks)
        ELSE IF line.first = "hash"
        THEN IF line.hashes = 3 THEN flushed
             ELSE IF line.hashes = 2
             THEN IF line.directive = "" THEN counted
                  ELSE IF line.directive = "FASTA"
                  THEN IF Running(flushed) THEN startFasta(flushed, callbacks)
                       ELSE flushed
                  ELSE emitDirective(counted, line.directive, callbacks)
             ELSE emitComment(counted, line.text, callbacks)
        ELSE IF line.first = "none" THEN counted
        ELSE IF Running(flushed)
             THEN fastaAddLine(startFasta(flushed, callbacks), line)
             ELSE flushed

\* Parser.finish
finish(s, callbacks) ==
    LET flushed == emitAllUnderConstructionFeatures(s, callbacks)
        seqs == IF flushed.fastaParser.exists THEN fastaFlush(flushed) ELSE flushed
    IN  IF Running(flushed)
        THEN [seqs EXCEPT !.log = Append(@, [cb |-> "endCallback", arg |-> 0])]
        ELSE flushed

\* ----------------------------------------------------------------- actions

\* the state after the call op(line) of the caller came back with s; asked
\* is the errorCallback parseError turned to in it ("unused": it did not)
Becomes(op, line, s) ==
    /\ lastCall' = [op |-> op, line |-> line, exc |-> s.exc, errorCallback |-> s.asked]
    /\ eof' = s.eof
    /\ lineNumber' = s.lineNumber
    /\ fastaParser' = s.fastaParser
    /\ underConstructionTopLevel' = s.underConstructionTopLevel
    /\ underConstructionById' = s.underConstructionById
    /\ completedReferences' = s.completedReferences
    /\ underConstructionOrphans' = s.underConstructionOrphans
    /\ lineObjs' = s.lineObjs
    /\ feats' = s.feats
    /\ log' = s.log
    /\ raised' = IF s.exc.kind = "none" THEN raised ELSE Append(raised, s.exc)
    /\ hung' = s.hung
    /\ enqueued' = s.enqueued
    /\ evictedAt' = s.evictedAt
    /\ scopeMark' = s.scopeMark

BufferSizes == (0..MaxBuf) \cup {Infinity}

InitWith(lines) ==
    /\ alphabet = lines
    /\ bufferSize \in BufferSizes
    /\ disableDerivesFromReferences \in BOOLEAN
    /\ eof = FALSE
    /\ lineNumber = 0
    /\ fastaParser = NoFastaParser
    /\ underConstructionTopLevel = <<>>
    /\ underConstructionById = [id \in IDs |-> 0]
    /\ completedReferences = {}
    /\ underConstructionOrphans = <<>>
    /\ lineObjs = <<>>
    /\ feats = <<>>
    /\ log = <<>>
    /\ raised = <<>>
    /\ hung = FALSE
    /\ calls = 0
    /\ finished = FALSE
    /\ lastCall = [op |-> "new", line |-> BlankLine, exc |-> NoExc,
                   errorCallback |-> "unused"]
    /\ enqueued = <<>>
    /\ evictedAt = [id \in IDs |-> 0]
    /\ scopeMark = 0

\* no function of util.ts is called
UtilIdle ==
    /\ rawVal = <<>>
    /\ stringVal = <<>>
    /\ applied = <<>>

\* no formatting transformer is made
FormatterIdle ==
    /\ linesSinceLastSyncMark = 0
    /\ haveWeEmittedData = FALSE
    /\ fastaMode = FALSE
    /\ minLinesBetweenSyncMarks = 100
    /\ insertVersionDirective = FALSE
    /\ pushed = <<>>
    /\ chunks = <<>>

Init == InitWith(ParserLines) /\ UtilIdle /\ FormatterIdle

\* the caller hands the engine its next line
AddLine(line, callbacks) ==
    /\ ~finished /\ ~hung
    /\ calls < MaxLines
    /\ calls' = calls + 1
    /\ Becomes("addLine", line, addLine(Self, line, callbacks))
    /\ UNCHANGED <<alphabet, bufferSize, disableDerivesFromReferences, finished>>
    /\ UNCHANGED <<utilVars, formatVars>>

\* the caller ends the input
Finish(callbacks) ==
    /\ ~finished /\ ~hung
    /\ finished' = TRUE
    /\ Becomes("finish", BlankLine, finish(Self, callbacks))
    /\ UNCHANGED <<alphabet, bufferSize, disableDerivesFromReferences, calls>>
    /\ UNCHANGED <<utilVars, formatVars>>

Next ==
    \/ \E line \in alphabet, callbacks \in Callbacks : AddLine(line, callbacks)
    \/ \E callbacks \in Callbacks : Finish(callbacks)

Spec == Init /\ [][Next]_vars

\* ------------------------------------------------------------ parseStringSync

\* the options without a bufferSize: disableDerivesFromReferences given or not
OptionsWithoutBufferSize ==
    {<<>>} \cup { [disableDerivesFromReferences |-> d] : d \in BOOLEAN }

\* ParseOptions as a caller gives them: any of bufferSize and
\* disableDerivesFromReferences, or neither
ParseOptions ==
    OptionsWithoutBufferSize \cup
        { [bufferSize |-> b] @@ o :
            b \in BufferSizes, o \in OptionsWithoutBufferSize }

\* _processParseOptions: the defaults, overridden by the options given
_processParseOptions(options) ==
    options @@ [parseFeatures |-> TRUE, parseDirectives |-> FALSE,
                parseSequences |-> TRUE, parseComments |-> FALSE,
                bufferSize |-> Infinity,
                disableDerivesFromReferences |-> FALSE]

\* the arguments parseStringSync would make its parser with if it passed
\* the bufferSize option on
parseStringSyncParserByOption(options) ==
    [disableDerivesFromReferences |-> options.disableDerivesFromReferences,
     bufferSize |-> options.bufferSize]

\* the arguments parseStringSync makes its parser with
parseStringSyncParser(options) ==
    [disableDerivesFromReferences |-> options.disableDerivesFromReferences,
     bufferSize |-> Infinity]

\* the callbacks parseStringSync passes
parseStringSyncCallbacks(options) ==
    [featureCallback |-> options.parseFeatures,
     directiveCallback |-> options.parseDirectives,
     commentCallback |-> options.parseComments,
     sequenceCallback |-> options.parseSequences,
     errorCallback |-> "throws"]

\* parseStringSync is called with some options
SyncInit ==
    \E inputOptions \in ParseOptions :
        LET args == parseStringSyncParser(_processParseOptions(inputOptions))
        IN  /\ InitWith(ParserLines)
            /\ UtilIdle
            /\ FormatterIdle
            /\ bufferSize = args.bufferSize
            /\ disableDerivesFromReferences = args.disableDerivesFromReferences

\* parseStringSync hands the parser the next line of the string; an
\* exception ends it
SyncAddLine(line) ==
    /\ raised = <<>>
    /\ AddLine(line, parseStringSyncCallbacks(_processParseOptions(<<>>)))

\* parseStringSync is through the lines
SyncFinish ==
    /\ raised = <<>>
    /\ Finish(parseStringSyncCallbacks(_processParseOptions(<<>>)))

SyncNext ==
    \/ \E line \in alphabet : SyncAddLine(line)
    \/ SyncFinish

SyncSpec == SyncInit /\ [][SyncNext]_vars

\* parseStringSync hands the parser the lines of a text
RoundTripInit ==
    \E inputOptions \in ParseOptions :
        LET args == parseStringSyncParser(_processParseOptions(inputOptions))
        IN  /\ InitWith(RoundTripLines)
            /\ UtilIdle
            /\ FormatterIdle
            /\ bufferSize = args.bufferSize
            /\ disableDerivesFromReferences = args.disableDerivesFromReferences

RoundTripSpec == RoundTripInit /\ [][SyncNext]_vars

\* new GFF3Parser(...): the Parser object as constructed
NewParser ==
    [eof |-> FALSE, lineNumber |-> 0, fastaParser |-> NoFastaParser,
     underConstructionTopLevel |-> <<>>,
     underConstructionById |-> [id \in IDs |-> 0],
     completedReferences |-> {},
     underConstructionOrphans |-> <<>>,
     lineObjs |-> <<>>, feats |-> <<>>, log |-> <<>>,
     exc |-> NoExc, hung |-> FALSE, asked |-> "unused",
     enqueued |-> <<>>, evictedAt |-> [id \in IDs |-> 0], scopeMark |-> 0]

\* str.split(...).forEach(line => parser.addLine(line, callbacks)), which an
\* exception ends
RECURSIVE addLines(_, _, _)
addLines(s, lines, callbacks) ==
    IF lines = <<>> \/ ~Running(s) THEN s
    ELSE addLines(addLine(s, Head(lines), callbacks), Tail(lines), callbacks)

\* parseStringSync(str, inputOptions): the parser when it returns or throws;
\* the items returned are the arguments of the calls in its log.  A text that
\* ends in a newline splits into its lines and an empty string.
parseStringSync(str, inputOptions) ==
    LET callbacks == parseStringSyncCallbacks(_processParseOptions(inputOptions))
        fed == addLines(NewParser, str \o <<BlankLine>>, callbacks)
    IN  IF str = <<>> THEN NewParser
        ELSE IF Running(fed) THEN finish(fed, callbacks)
        ELSE fed

\* ------------------------------------------------------------- formatting

\* A formatted line, as the parser reads it again.  The columns and the
\* attribute values of the model's lines are words that escape, escapeColumn
\* and unescape leave as they are.
FormattedFeatureLine(f) ==
    Line("other", 0, "", "", f.type, f.ID, f.Parent, f.Derives_from, f.text)

\* _formatSingleFeature that writes the line whether seenFeature has it or not
formatSingleFeatureAgain(f, seenFeature) ==
    LET formattedString == FormattedFeatureLine(f)
    IN  [str |-> <<formattedString>>,
         seenFeature |-> seenFeature \cup {formattedString}]

\* _formatSingleFeature: the line of f, or the empty string when seenFeature
\* has it.  The value is the string returned and the seenFeature record as
\* the call leaves it.
_formatSingleFeature(f, seenFeature) ==
    LET formattedString == FormattedFeatureLine(f)
    IN  IF formattedString \in seenFeature
        THEN [str |-> <<>>, seenFeature |-> seenFeature]
        ELSE [str |-> <<formattedString>>,
              seenFeature |-> seenFeature \cup {formattedString}]

\* _formatFeature of a feature line n of the parser s, and of the features
\* (arrays of feature lines) in a list: the strings joined, and the
\* seenFeature record as the calls leave it
RECURSIVE _formatFeature(_, _, _)
RECURSIVE _formatFeatures(_, _, _)
RECURSIVE _formatLocations(_, _, _)
_formatFeature(s, n, seenFeature) ==
    LET own == _formatSingleFeature(s.lineObjs[n], seenFeature)
        children == _formatFeatures(s, s.lineObjs[n].child_features,
                                    own.seenFeature)
        derived == _formatFeatures(s, s.lineObjs[n].derived_features,
                                   children.seenFeature)
    IN  [str |-> own.str \o children.str \o derived.str,
         seenFeature |-> derived.seenFeature]

_formatFeatures(s, features, seenFeature) ==
    IF features = <<>> THEN [str |-> <<>>, seenFeature |-> seenFeature]
    ELSE LET first == _formatLocations(s, s.feats[Head(features)], seenFeature)
             rest == _formatFeatures(s, Tail(features), first.seenFeature)
         IN  [str |-> first.str \o rest.str, seenFeature |-> rest.seenFeature]

_formatLocations(s, locations, seenFeature) ==
    IF locations = <<>> THEN [str |-> <<>>, seenFeature |-> seenFeature]
    ELSE LET first == _formatFeature(s, Head(locations), seenFeature)
             rest == _formatLocations(s, Tail(locations), first.seenFeature)
         IN  [str |-> first.str \o rest.str, seenFeature |-> rest.seenFeature]

\* formatFeature: a seenFeature record of its own
formatFeature(s, n) == _formatFeature(s, n, {}).str

\* formatFeature of a Feature, an array of feature lines: one seenFeature
\* record for all of them
formatFeatureArray(s, locations) == _formatLocations(s, locations, {}).str

\* formatItem(o).join('') of a feature o, an array: formatFeature of each of
\* its lines
RECURSIVE formatItem(_, _)
formatItem(s, locations) ==
    IF locations = <<>> THEN <<>>
    ELSE formatFeature(s, Head(locations)) \o formatItem(s, Tail(locations))

\* formatSequence: the header line and the line of residues
formatSequence(seq) ==
    << Line("gt", 0, "", seq.id, "", <<>>, <<>>, <<>>, <<">", seq.id>>),
       IF seq.sequence = <<>> THEN BlankLine
       ELSE Line("other", 0, "", "", "", <<>>, <<>>, <<>>, seq.sequence) >>

\* formatSync of the items a parser delivered: the features, then ##FASTA
\* and the sequences if there are any
RECURSIVE formatOther(_, _)
formatOther(s, items) ==
    IF items = <<>> THEN <<>>
    ELSE (IF Head(items).cb = "featureCallback"
          THEN formatItem(s, s.feats[Head(items).arg])
          ELSE <<>>)
         \o formatOther(s, Tail(items))

RECURSIVE formatSequences(_)
formatSequences(items) ==
    IF items = <<>> THEN <<>>
    ELSE (IF Head(items).cb = "sequenceCallback"
          THEN formatSequence(Head(items).arg)
          ELSE <<>>)
         \o formatSequences(Tail(items))

formatSync(s) ==
    formatOther(s, s.log)
        \o (IF \E i \in 1..Len(s.log) : s.log[i].cb = "sequenceCallback"
            THEN <<FastaDirectiveLine>> \o formatSequences(s.log)
            ELSE <<>>)

\* ------------------------------------------------------------------ util.ts

\* the longest string the caller starts from, and the most calls it makes
MaxStr == 3
MaxApplied == 2

\* a string is a sequence of UTF-16 code units.  The code units drawn on:
\* tab, %, 1, 4, ;, A, a, g, U+00FF and U+0100
CharCodes == {9, 37, 49, 52, 59, 65, 97, 103, 255, 256}

Strings == UNION { [1..n -> CharCodes] : n \in 0..MaxStr }

\* [0-9A-Fa-f]
IsHexDigit(c) == c \in (48..57) \cup (65..70) \cup (97..102)

\* the value of a hexadecimal digit, as parseInt(seq, 16) reads it
HexValue(c) ==
    IF c \in 48..57 THEN c - 48
    ELSE IF c \in 65..70 THEN c - 55
    ELSE c - 87

\* the upper-case hexadecimal digit of a value below 16
HexDigit(n) == IF n < 10 THEN 48 + n ELSE 55 + n

\* charCodeAt(0).toString(16).toUpperCase()
RECURSIVE ToHex(_)
ToHex(n) ==
    IF n < 16 THEN <<HexDigit(n)>>
    ELSE ToHex(n \div 16) \o <<HexDigit(n % 16)>>

\* padStart(2, '0')
PadStart2(s) == IF Len(s) < 2 THEN <<48>> \o s ELSE s

\* replaceAll(/%([0-9A-Fa-f]{2})/g, ...): matches are found left to right
\* and do not overlap
RECURSIVE unescape(_)
unescape(s) ==
    IF s = <<>> THEN <<>>
    ELSE IF /\ Len(s) >= 3
            /\ s[1] = 37
            /\ IsHexDigit(s[2])
            /\ IsHexDigit(s[3])
         THEN <<16 * HexValue(s[2]) + HexValue(s[3])>>
                  \o unescape(SubSeq(s, 4, Len(s)))
         ELSE <<s[1]>> \o unescape(Tail(s))

\* _escape without padStart
RECURSIVE escapeUnpadded(_, _)
escapeUnpadded(regex, s) ==
    IF s = <<>> THEN <<>>
    ELSE (IF s[1] \in regex THEN <<37>> \o ToHex(s[1]) ELSE <<s[1]>>)
             \o escapeUnpadded(regex, Tail(s))

\* _escape: every code unit of the class regex becomes % and its two
\* hexadecimal digits
RECURSIVE _escape(_, _)
_escape(regex, s) ==
    IF s = <<>> THEN <<>>
    ELSE (IF s[1] \in regex THEN <<37>> \o PadStart2(ToHex(s[1])) ELSE <<s[1]>>)
             \o _escape(regex, Tail(s))

\* [\n;\r\t=%&,\u0000-\u001f\u007f-\u00ff]
EscapeClass == {10, 59, 13, 9, 61, 37, 38, 44} \cup (0..31) \cup (127..255)

\* [\n\r\t%\u0000-\u001f\u007f-\u00ff]
EscapeColumnClass == {10, 13, 9, 37} \cup (0..31) \cup (127..255)

escape(rawValue) == _escape(EscapeClass, rawValue)

escapeColumn(rawValue) == _escape(EscapeColumnClass, rawValue)

\* the caller has a string and no parser
UtilInit ==
    /\ InitWith({})
    /\ bufferSize = Infinity
    /\ ~disableDerivesFromReferences
    /\ FormatterIdle
    /\ rawVal \in Strings
    /\ stringVal = rawVal
    /\ applied = <<>>

Escape ==
    /\ Len(applied) < MaxApplied
    /\ stringVal' = escape(stringVal)
    /\ applied' = Append(applied, "escape")
    /\ UNCHANGED <<parserVars, formatVars, rawVal>>

EscapeColumn ==
    /\ Len(applied) < MaxApplied
    /\ stringVal' = escapeColumn(stringVal)
    /\ applied' = Append(applied, "escapeColumn")
    /\ UNCHANGED <<parserVars, formatVars, rawVal>>

Unescape ==
    /\ Len(applied) < MaxApplied
    /\ stringVal' = unescape(stringVal)
    /\ applied' = Append(applied, "unescape")
    /\ UNCHANGED <<parserVars, formatVars, rawVal>>

UtilNext == Escape \/ EscapeColumn \/ Unescape

UtilSpec == UtilInit /\ [][UtilNext]_vars

\* ---------------------------------------------------- util.ts: attributes

\* the longest attribute string the caller hands over
MaxAttr == 5

\* the code units of attribute strings: space, ',', '.', ';', '=', a, k
AttrCodes == {32, 44, 46, 59, 61, 97, 107}

AttrStrings == UNION { [1..n -> AttrCodes] : n \in 0..MaxAttr }

\* the white space String.prototype.trim takes off, among the code units drawn on
WhiteSpace == {9, 10, 13, 32}

\* String.prototype.trim
RECURSIVE trimStart(_)
trimStart(s) ==
    IF s # <<>> /\ s[1] \in WhiteSpace THEN trimStart(Tail(s)) ELSE s

RECURSIVE trimEnd(_)
trimEnd(s) ==
    IF s # <<>> /\ s[Len(s)] \in WhiteSpace
    THEN trimEnd(SubSeq(s, 1, Len(s) - 1))
    ELSE s

trim(s) == trimEnd(trimStart(s))

\* String.prototype.split(separator), separator one code unit: the pieces
\* between the separators, empty ones too
RECURSIVE split(_, _)
split(s, separator) ==
    IF \A i \in 1..Len(s) : s[i] # separator THEN <<s>>
    ELSE LET i == CHOOSE k \in 1..Len(s) :
                      /\ s[k] = separator
                      /\ \A j \in 1..(k - 1) : s[j] # separator
         IN  <<SubSeq(s, 1, i - 1)>> \o split(SubSeq(s, i + 1, Len(s)), separator)

\* String.prototype.split(separator, limit): the first limit pieces of the
\* full split
splitLimit(s, separator, limit) ==
    LET pieces == split(s, separator)
    IN  SubSeq(pieces, 1, IF Len(pieces) < limit THEN Len(pieces) ELSE limit)

\* the two pieces a split at the first separator only would give
splitAtFirst(s, separator) ==
    IF \A i \in 1..Len(s) : s[i] # separator THEN <<s>>
    ELSE LET i == CHOOSE k \in 1..Len(s) :
                      /\ s[k] = separator
                      /\ \A j \in 1..(k - 1) : s[j] # separator
         IN  <<SubSeq(s, 1, i - 1), SubSeq(s, i + 1, Len(s))>>

\* replace(/\r?\n$/, '')
chomp(s) ==
    IF s # <<>> /\ s[Len(s)] = 10
    THEN IF Len(s) >= 2 /\ s[Len(s) - 1] = 13
         THEN SubSeq(s, 1, Len(s) - 2)
         ELSE SubSeq(s, 1, Len(s) - 1)
    ELSE s

\* .split(',').map((s) => s.trim()).map(unescape)
RECURSIVE attributeValues(_)
attributeValues(pieces) ==
    IF pieces = <<>> THEN <<>>
    ELSE <<unescape(trim(Head(pieces)))>> \o attributeValues(Tail(pieces))

\* attrs after arec.push(...values) for the tag: a GFF3Attributes record is
\* the sequence of its entries in the order they were made
pushValues(attrs, tag, values) ==
    IF \E i \in 1..Len(attrs) : attrs[i].tag = tag
    THEN [ i \in 1..Len(attrs) |->
             IF attrs[i].tag = tag
             THEN [attrs[i] EXCEPT !.values = @ \o values]
             ELSE attrs[i] ]
    ELSE Append(attrs, [tag |-> tag, values |-> values])

\* the forEach of parseAttributes over the entries, nv being what the
\* entry is split into
RECURSIVE parseEntries(_, _, _)
parseEntries(entries, attrs, first) ==
    IF entries = <<>> THEN attrs
    ELSE LET a == Head(entries)
             nv == IF first THEN splitAtFirst(a, 61) ELSE splitLimit(a, 61, 2)
         IN  IF Len(nv) < 2 \/ nv[2] = <<>>
             THEN parseEntries(Tail(entries), attrs, first)
             ELSE parseEntries(Tail(entries),
                               pushValues(attrs, trim(nv[1]),
                                          attributeValues(split(nv[2], 44))),
                               first)

\* parseAttributes
parseAttributes(attrString) ==
    IF attrString = <<>> \/ attrString = <<46>> THEN <<>>
    ELSE parseEntries(split(chomp(attrString), 59), <<>>, FALSE)

\* parseAttributes with every entry split at its first '=' only
parseAttributesAtFirst(attrString) ==
    IF attrString = <<>> \/ attrString = <<46>> THEN <<>>
    ELSE parseEntries(split(chomp(attrString), 59), <<>>, TRUE)

\* the caller has an attribute string and no parser
AttrInit ==
    /\ InitWith({})
    /\ bufferSize = Infinity
    /\ ~disableDerivesFromReferences
    /\ FormatterIdle
    /\ rawVal \in AttrStrings
    /\ stringVal = <<>>
    /\ applied = <<>>

ParseAttributes ==
    /\ applied = <<>>
    /\ stringVal' = parseAttributes(rawVal)
    /\ applied' = <<"parseAttributes">>
    /\ UNCHANGED <<parserVars, formatVars, rawVal>>

AttrSpec == AttrInit /\ [][ParseAttributes]_vars

\* ------------------------------------------- parse.ts: the tests of addLine

\* the longest line text whose classification is looked at
MaxText == 4

\* the texts of lines, over the code units tab, newline, space, '#', '>', x
LineTexts == UNION { [1..n -> {9, 10, 32, 35, 62, 120}] : n \in 0..MaxText }

\* /^[^#\s>]/, the test for a feature line without its leading \s*
featureLineUnindented(line) ==
    line # <<>> /\ line[1] \notin WhiteSpace \cup {35, 62}

\* /^\s*[^#\s>]/
featureLine(line) ==
    trimStart(line) # <<>> /\ trimStart(line)[1] \notin WhiteSpace \cup {35, 62}

\* /^\s*(#+)(.*)/
hashLine(line) == trimStart(line) # <<>> /\ trimStart(line)[1] = 35

\* /^\s*$/
blankLine(line) == trimStart(line) = <<>>

\* /^\s*>/
fastaHeaderLine(line) == trimStart(line) # <<>> /\ trimStart(line)[1] = 62

\* the branch addLine takes for a line, its tests made in the order of the code
classify(line) ==
    IF featureLine(line) THEN "feature"
    ELSE IF hashLine(line) THEN "hash"
    ELSE IF blankLine(line) THEN "blank"
    ELSE IF fastaHeaderLine(line) THEN "fasta"
    ELSE "parse error"

\* the caller has the text of a line
ClassifyInit ==
    /\ InitWith({})
    /\ bufferSize = Infinity
    /\ ~disableDerivesFromReferences
    /\ FormatterIdle
    /\ rawVal \in LineTexts
    /\ stringVal = <<>>
    /\ applied = <<>>

Classify ==
    /\ applied = <<>>
    /\ stringVal' = <<classify(rawVal)>>
    /\ applied' = <<"addLine">>
    /\ UNCHANGED <<parserVars, formatVars, rawVal>>

ClassifySpec == ClassifyInit /\ [][Classify]_vars

\* --------------------------------------------------- formatting transformers

\* the number of items a formatting transformer is handed
MaxChunks == 4

\* A GFF3Item handed to a formatter: a feature (value: its lines), a
\* directive (name, and value when it has one), a comment (value: its text)
\* or a sequence (name: its id, value: its residues).
Item(kind, name, value) == [kind |-> kind, name |-> name, value |-> value]

FormatItems ==
    { Item("feature", "", <<"gene a">>),
      Item("feature", "", <<"gene a", "mRNA b">>),
      Item("directive", "gff-version", <<"3">>),
      Item("directive", "gff-version", <<"3.1.26">>),
      Item("directive", "sequence-region", <<"ctg 1 5">>),
      Item("comment", "", <<"note">>),
      Item("sequence", "s1", <<"ACGT">>) }

\* A string is the sequence of its pieces.
VersionLine == <<"##", "gff-version", " ", "3", "\n">>
FastaLine == <<"##", "FASTA", "\n">>
SyncMark == <<"###", "\n">>

\* formatFeature of each line of a feature, joined
RECURSIVE formatFeatureLines(_)
formatFeatureLines(lines) ==
    IF lines = <<>> THEN <<>>
    ELSE <<Head(lines), "\n">> \o formatFeatureLines(Tail(lines))

\* formatDirective
formatDirective(directive) ==
    <<"##", directive.name>>
        \o (IF directive.value # <<>> THEN <<" ", directive.value[1]>> ELSE <<>>)
        \o <<"\n">>

\* formatComment
formatComment(comment) == <<"# ", comment.value[1], "\n">>

\* formatSequence, of a sequence without a description
formatSequenceItem(seq) == <<">", seq.name, "\n", seq.value[1], "\n">>

\* the string a transformer makes of a chunk: formatItem, mapped over the
\* lines of a feature and joined
formatChunk(chunk) ==
    IF chunk.kind = "feature" THEN formatFeatureLines(chunk.value)
    ELSE IF chunk.kind = "directive" THEN formatDirective(chunk)
    ELSE IF chunk.kind = "sequence" THEN formatSequenceItem(chunk)
    ELSE formatComment(chunk)

\* the number of newlines in a string
Newlines(str) == Cardinality({ i \in 1..Len(str) : str[i] = "\n" })

\* the options a formatter is made with: minSyncLines (0: not given) and
\* insertVersionDirective ("undefined": not given)
MinSyncLinesOptions == {0, 1, 2}
InsertVersionDirectiveOptions == {"undefined", "true", "false"}

\* new GFFFormattingTransformer(options)
FormatStreamInit ==
    /\ InitWith({})
    /\ bufferSize = Infinity
    /\ ~disableDerivesFromReferences
    /\ UtilIdle
    /\ \E minSyncLines \in MinSyncLinesOptions :
           minLinesBetweenSyncMarks = IF minSyncLines = 0 THEN 100 ELSE minSyncLines
    /\ \E option \in InsertVersionDirectiveOptions :
           insertVersionDirective = (option # "false")
    /\ linesSinceLastSyncMark = 0
    /\ haveWeEmittedData = FALSE
    /\ fastaMode = FALSE
    /\ pushed = <<>>
    /\ chunks = <<>>

\* the same, with the count of lines kept on when a sync mark is written
EmitNotResetting(chunk, version, emitted) ==
    LET fasta == chunk.kind = "sequence" /\ ~fastaMode
        str == formatChunk(chunk)
        sync == linesSinceLastSyncMark >= minLinesBetweenSyncMarks
    IN  /\ Len(chunks) < MaxChunks
        /\ chunks' = Append(chunks, chunk)
        /\ pushed' = pushed
                        \o (IF version THEN <<VersionLine>> ELSE <<>>)
                        \o (IF fasta THEN <<FastaLine>> ELSE <<>>)
                        \o <<str>>
                        \o (IF sync THEN <<SyncMark>> ELSE <<>>)
        /\ fastaMode' = (fastaMode \/ fasta)
        /\ linesSinceLastSyncMark' =
               IF sync THEN linesSinceLastSyncMark
               ELSE linesSinceLastSyncMark + Newlines(str)
        /\ haveWeEmittedData' = emitted
        /\ UNCHANGED <<parserVars, utilVars, minLinesBetweenSyncMarks,
                       insertVersionDirective>>

\* the same, with ##FASTA written ahead of every sequence
EmitFastaEachTime(chunk, version, emitted) ==
    LET fasta == chunk.kind = "sequence"
        str == formatChunk(chunk)
        sync == linesSinceLastSyncMark >= minLinesBetweenSyncMarks
    IN  /\ Len(chunks) < MaxChunks
        /\ chunks' = Append(chunks, chunk)
        /\ pushed' = pushed
                        \o (IF version THEN <<VersionLine>> ELSE <<>>)
                        \o (IF fasta THEN <<FastaLine>> ELSE <<>>)
                        \o <<str>>
                        \o (IF sync THEN <<SyncMark>> ELSE <<>>)
        /\ fastaMode' = (fastaMode \/ fasta)
        /\ linesSinceLastSyncMark' =
               IF sync THEN 0 ELSE linesSinceLastSyncMark + Newlines(str)
        /\ haveWeEmittedData' = emitted
        /\ UNCHANGED <<parserVars, utilVars, minLinesBetweenSyncMarks,
                       insertVersionDirective>>

\* what either transformer does with a chunk once it has settled whether to
\* write a version directive first
Emit(chunk, version, emitted) ==
    LET fasta == chunk.kind = "sequence" /\ ~fastaMode
        str == formatChunk(chunk)
        sync == linesSinceLastSyncMark >= minLinesBetweenSyncMarks
    IN  /\ Len(chunks) < MaxChunks
        /\ chunks' = Append(chunks, chunk)
        /\ pushed' = pushed
                        \o (IF version THEN <<VersionLine>> ELSE <<>>)
                        \o (IF fasta THEN <<FastaLine>> ELSE <<>>)
                        \o <<str>>
                        \o (IF sync THEN <<SyncMark>> ELSE <<>>)
        /\ fastaMode' = (fastaMode \/ fasta)
        /\ linesSinceLastSyncMark' =
               IF sync THEN 0 ELSE linesSinceLastSyncMark + Newlines(str)
        /\ haveWeEmittedData' = emitted
        /\ UNCHANGED <<parserVars, utilVars, minLinesBetweenSyncMarks,
                       insertVersionDirective>>

\* GFFFormattingTransformer.transform that leaves haveWeEmittedData alone
transformForgetting(chunk) ==
    Emit(chunk,
         /\ ~haveWeEmittedData
         /\ insertVersionDirective
         /\ (chunk.kind # "directive" \/ chunk.name # "gff-version"),
         haveWeEmittedData)

\* GFFFormattingTransformer.transform
transform(chunk) ==
    Emit(chunk,
         /\ ~haveWeEmittedData
         /\ insertVersionDirective
         /\ (chunk.kind # "directive" \/ chunk.name # "gff-version"),
         TRUE)

FormatStreamNext == \E chunk \in FormatItems : transform(chunk)

FormatStreamSpec == FormatStreamInit /\ [][FormatStreamNext]_vars

\* formatFile(stream, writeStream, options): new FormattingTransform of
\* { insertVersionDirective: true, ...options }
FormatFileInit ==
    /\ InitWith({})
    /\ bufferSize = Infinity
    /\ ~disableDerivesFromReferences
    /\ UtilIdle
    /\ \E minSyncLines \in MinSyncLinesOptions :
           minLinesBetweenSyncMarks = IF minSyncLines = 0 THEN 100 ELSE minSyncLines
    /\ \E option \in InsertVersionDirectiveOptions :
           insertVersionDirective = (option # "false")
    /\ linesSinceLastSyncMark = 0
    /\ haveWeEmittedData = FALSE
    /\ fastaMode = FALSE
    /\ pushed = <<>>
    /\ chunks = <<>>

\* FormattingTransform._transform
_transform(chunk) ==
    Emit(chunk,
         /\ ~haveWeEmittedData
         /\ insertVersionDirective
         /\ chunk.kind = "directive"
         /\ chunk.name # "gff-version",
         TRUE)

FormatFileNext == \E chunk \in FormatItems : _transform(chunk)

FormatFileSpec == FormatFileInit /\ [][FormatFileNext]_vars

\* a parser fed the lines of Features that are formatted when delivered
FormatFeatureInit ==
    /\ InitWith(FormatLines)
    /\ UtilIdle
    /\ FormatterIdle
    /\ bufferSize = Infinity

FormatFeatureSpec == FormatFeatureInit /\ [][Next]_vars

\* a parser fed lines that start with '#'
HashInit == InitWith(HashLines) /\ UtilIdle /\ FormatterIdle

HashSpec == HashInit /\ [][Next]_vars

\* a parser fed lines with cyclic references
CycleInit == InitWith(CycleLines) /\ UtilIdle /\ FormatterIdle

CycleSpec == CycleInit /\ [][Next]_vars

\* a parser fed lines with several ID values
MultiIdInit == InitWith(MultiIdLines) /\ UtilIdle /\ FormatterIdle

MultiIdSpec == MultiIdInit /\ [][Next]_vars

\* a parser fed lines that carry Derives_from
DerivesInit == InitWith(DerivesLines) /\ UtilIdle /\ FormatterIdle

DerivesSpec == DerivesInit /\ [][Next]_vars

\* a parser fed GFF3 lines followed by a FASTA section
FastaInit == InitWith(FastaLines) /\ UtilIdle /\ FormatterIdle

\* The lines fed to a parser whose input has items of every kind.
ItemLines ==
    { Feat("gene", <<"a">>, <<>>, <<>>),
      Feat("mRNA", <<"a">>, <<>>, <<>>),
      Feat("gene", <<"b">>, <<"a">>, <<>>),
      SyncLine, FastaDirectiveLine, VersionDirectiveLine, CommentLine,
      HeaderLine, ResidueLine }

\* a parser fed items of every kind, with the default of the Derives_from
\* option and a bufferSize of 1 or Infinity
ItemInit ==
    /\ InitWith(ItemLines)
    /\ UtilIdle
    /\ FormatterIdle
    /\ bufferSize \in {1, Infinity}
    /\ ~disableDerivesFromReferences

ItemSpec == ItemInit /\ [][Next]_vars

FastaSpec == FastaInit /\ [][Next]_vars


\* ------------------------------------------------- vocabulary of the claims

\* the Derives_from values the engine reads of a feature line object
EffectiveDerives(obj) ==
    IF disableDerivesFromReferences THEN <<>> ELSE obj.Derives_from

\* the features (arrays) that hold line object n
FeaturesOf(n) == { f \in 1..Len(feats) : n \in Range(feats[f]) }

\* the first location of feature g
FirstLoc(g) == lineObjs[feats[g][1]]

\* line object n was made by a line of the current scope: one processed
\* after the last flush
InScope(n) == lineObjs[n].no > scopeMark

\* the step is an addLine call / the finish call
AddLineStep == calls' = calls + 1
FinishStep == finished' /\ ~finished

\* addLine classifies and processes its line (neither FASTA mode nor eof)
Accepting == ~eof /\ ~fastaParser.exists

\* the lines that make addLine flush: ###, ##FASTA and a '>' line
FlushLine(line) ==
    \/ line.first = "hash" /\ line.hashes = 3
    \/ line.first = "hash" /\ line.hashes = 2 /\ line.directive = "FASTA"
    \/ line.first = "gt"

\* the step runs emitAllUnderConstructionFeatures
FlushStep ==
    \/ FinishStep
    \/ AddLineStep /\ Accepting /\ FlushLine(lastCall'.line)

\* the step made bufferLine run on a feature line
FeatureStep == AddLineStep /\ Accepting /\ lastCall'.line.first = "other"

\* ----------------------------------------------------------------------- C1

\* p is buffered, and the line that made its Feature is the first line with
\* ID=p of the current scope
FirstDefinition(p) ==
    /\ underConstructionById[p] # 0
    /\ InScope(feats[underConstructionById[p]][1])
    /\ \A m \in 1..Len(lineObjs) :
           (InScope(m) /\ p \in Range(lineObjs[m].ID))
               => lineObjs[m].no >= FirstLoc(underConstructionById[p]).no

\* line object n is of a line of the current scope processed before the
\* line that made the buffered Feature of p
Before(n, p) ==
    InScope(n) /\ lineObjs[n].no < FirstLoc(underConstructionById[p]).no

ForwardResolved ==
    \A p \in IDs :
        FirstDefinition(p) =>
            /\ p \notin Range(OrphanKeys(underConstructionOrphans))
            /\ \A n \in 1..Len(lineObjs) :
                   Before(n, p) =>
                       /\ p \in Range(lineObjs[n].Parent) =>
                              \E f \in FeaturesOf(n) :
                                  f \in Range(FirstLoc(underConstructionById[p]).child_features)
                       /\ p \in Range(EffectiveDerives(lineObjs[n])) =>
                              \E f \in FeaturesOf(n) :
                                  f \in Range(FirstLoc(underConstructionById[p]).derived_features)

\* C1: forward references resolve.  When a line with Parent=p (resp.
\* Derives_from=p) is processed before the first line with ID=p of its scope,
\* then from the moment the p line is processed the location it made holds the
\* Feature of the earlier line in child_features (resp. derived_features) and
\* the orphan map has no entry for p; and a flush made while p is buffered
\* raises no referential-integrity error that names p.
C1_ForwardReferencesResolve ==
    [][ /\ ForwardResolved'
        /\ FlushStep =>
               \A p \in IDs :
                   underConstructionById[p] # 0 => p \notin Range(lastCall'.exc.ids)
      ]_vars

\* a state where a child and a derived Feature, both processed before their
\* target's line, hang off the target
C1_Witness ==
    \E p \in IDs :
        /\ FirstDefinition(p)
        /\ \E n, m \in 1..Len(lineObjs) :
               /\ Before(n, p) /\ p \in Range(lineObjs[n].Parent)
               /\ lineObjs[n].ID # <<>>
               /\ FeaturesOf(n) \cap Range(FirstLoc(underConstructionById[p]).child_features) # {}
               /\ Before(m, p) /\ p \in Range(EffectiveDerives(lineObjs[m]))
               /\ lineObjs[m].ID # <<>>
               /\ FeaturesOf(m) \cap Range(FirstLoc(underConstructionById[p]).derived_features) # {}

\* ----------------------------------------------------------------------- C2

\* the identifiers line object n refers to
References(n) ==
    Range(lineObjs[n].Parent) \cup Range(EffectiveDerives(lineObjs[n]))

\* a line of the current scope carries ID=t
DefinedInScope(t) ==
    \E m \in 1..Len(lineObjs) : InScope(m) /\ t \in Range(lineObjs[m].ID)

\* the call that handed in the line of line object n ended in an exception
\* before the line was dealt with
Aborted(n) ==
    \E i \in 1..Len(raised) :
        /\ raised[i].kind \in {"TypeMismatch", "RangeError"}
        /\ raised[i].line = lineObjs[n].no

\* the targets a processed line of the current scope names and no line of the
\* scope defines
Dangling ==
    { t \in IDs :
        /\ ~DefinedInScope(t)
        /\ \E n \in 1..Len(lineObjs) :
               InScope(n) /\ ~Aborted(n) /\ t \in References(n) }

\* C2: dangling references are hard errors.  When a line that was processed
\* since the last flush names a Parent or Derives_from target (Derives_from
\* as far as the engine reads it) and no line since that flush carries the
\* target as its ID, the next flush (###, FASTA start or finish) raises the
\* referential-integrity error and the error lists every such target.
C2_DanglingReferencesRaise ==
    [][ (FlushStep /\ Dangling # {}) =>
            /\ lastCall'.exc.kind = "ReferentialIntegrity"
            /\ Dangling \subseteq Range(lastCall'.exc.ids)
      ]_vars

\* a flush has just raised the error for two targets that no line of the
\* scope it closed defined
C2_Witness ==
    /\ lastCall.exc.kind = "ReferentialIntegrity"
    /\ Len(lastCall.exc.ids) >= 2
    /\ \A i \in 1..Len(lastCall.exc.ids) :
           /\ \E n \in 1..Len(lineObjs) : lastCall.exc.ids[i] \in References(n)
           /\ \A m \in 1..Len(lineObjs) : lastCall.exc.ids[i] \notin Range(lineObjs[m].ID)

\* ----------------------------------------------------------------------- C3

\* the parser buffers without limit and no call has thrown so far
UnboundedAndSound == bufferSize = Infinity /\ raised = <<>>

\* the targets the lines of the current scope name and no line of the scope
\* defines
Undefined ==
    { t \in IDs :
        /\ ~DefinedInScope(t)
        /\ \E n \in 1..Len(lineObjs) : InScope(n) /\ t \in References(n) }

\* a flush raises the referential-integrity error exactly when a target is
\* undefined, and the error names exactly the undefined targets
FlushRaisesExactly ==
    FlushStep =>
        IF Undefined = {}
        THEN lastCall'.exc = NoExc
        ELSE /\ lastCall'.exc.kind = "ReferentialIntegrity"
             /\ Range(lastCall'.exc.ids) = Undefined

\* the step hands bufferLine a line with an ID that is buffered with a
\* location of another type
TypeMismatchStep ==
    /\ FeatureStep
    /\ \E x \in Range(lastCall'.line.ID) :
           /\ underConstructionById[x] # 0
           /\ lineObjs[feats[underConstructionById[x]]
                            [Len(feats[underConstructionById[x]])]].type
                  # lastCall'.line.type

\* the call of the step rejected nothing: it threw nothing, reported nothing
\* through errorCallback and came back
NothingRejected ==
    /\ lastCall'.exc = NoExc
    /\ lastCall'.errorCallback = "unused"
    /\ ~hung'

SyncStep ==
    /\ AddLineStep /\ Accepting
    /\ lastCall'.line.first = "hash" /\ lastCall'.line.hashes = 3

\* the featureCallback calls that deliver the features fs, in order
Deliveries(fs) == [ i \in 1..Len(fs) |-> [cb |-> "featureCallback", arg |-> fs[i]] ]

\* a line carried ID=x before the last flush, and none has since
DefinedOnlyBefore(x) ==
    /\ ~DefinedInScope(x)
    /\ \E m \in 1..Len(lineObjs) : ~InScope(m) /\ x \in Range(lineObjs[m].ID)

\* C4: sync-mark scoping.  A ### line delivers every buffered top-level
\* Feature, in queue order, and leaves the queue and the by-ID map empty; when
\* a reference is unresolved at that moment the ### raises the
\* referential-integrity error naming every orphan key.  A line after the
\* mark with Parent=x, where ID=x was carried only by lines before the mark,
\* changes no Feature line made before the mark and puts x in the orphan map,
\* and a flush that finds the orphan map non-empty reports all its keys.
C4_SyncMarkScoping ==
    [][ /\ SyncStep =>
               /\ log' = log \o Deliveries(underConstructionTopLevel)
               /\ underConstructionTopLevel' = <<>>
               /\ \A id \in IDs : underConstructionById'[id] = 0
        /\ (FlushStep /\ underConstructionOrphans # <<>>) =>
               /\ lastCall'.exc.kind = "ReferentialIntegrity"
               /\ lastCall'.exc.ids = OrphanKeys(underConstructionOrphans)
        /\ (FeatureStep /\ lastCall'.exc = NoExc /\ ~hung') =>
               \A x \in Range(lastCall'.line.Parent) :
                   DefinedOnlyBefore(x) =>
                       /\ x \in Range(OrphanKeys(underConstructionOrphans'))
                       /\ \A m \in 1..Len(lineObjs) :
                              ~InScope(m) => lineObjs'[m] = lineObjs[m]
      ]_vars

\* a line after a mark names as its Parent an ID that only a line before the
\* mark carried: the earlier Feature has no child and the ID is an orphan key
C4_Witness ==
    \E x \in IDs :
        /\ DefinedOnlyBefore(x)
        /\ scopeMark > 0
        /\ x \in Range(OrphanKeys(underConstructionOrphans))
        /\ \E n \in 1..Len(lineObjs) : InScope(n) /\ x \in Range(lineObjs[n].Parent)
        /\ \A m \in 1..Len(lineObjs) :
               x \in Range(lineObjs[m].ID) => lineObjs[m].child_features = <<>>

\* ----------------------------------------------------------------------- C5

\* the log entry delivers a feature that went through the top-level queue
DeliversEnqueued(e) == e.cb = "featureCallback" /\ e.arg \in Range(enqueued)

\* the features of the queue handed to featureCallback so far, in the order
\* of the calls
DeliveredFromQueue ==
    LET entries == SelectSeq(log, DeliversEnqueued)
    IN  [ i \in 1..Len(entries) |-> entries[i].arg ]

\* C5: top-level Features are delivered in the order in which they were
\* enqueued.  The Features delivered so far, in delivery order, followed by
\* the queue, are the Features in the order they were pushed on the queue,
\* whatever evictions and flushes delivered them; and a parser with a finite
\* bufferSize never holds more than bufferSize Features in the queue, so that
\* with bufferSize = 1 the first of three unrelated top-level Features is
\* delivered before the third line is processed (it is as soon as the second
\* is enqueued).
C5_FifoDelivery ==
    /\ enqueued = DeliveredFromQueue \o underConstructionTopLevel
    /\ bufferSize # Infinity => Len(underConstructionTopLevel) <= bufferSize
    /\ (bufferSize = 1 /\ Len(enqueued) >= 2) =>
           (DeliveredFromQueue # <<>> /\ DeliveredFromQueue[1] = enqueued[1])

\* bufferSize is 1, three unrelated top-level features were enqueued by three
\* lines and the first two are delivered, in their order
C5_Witness ==
    /\ bufferSize = 1
    /\ lineNumber = 3
    /\ Len(enqueued) = 3
    /\ DeliveredFromQueue = SubSeq(enqueued, 1, 2)
    /\ \A i \in 1..3 :
           /\ FirstLoc(enqueued[i]).ID # <<>>
           /\ FirstLoc(enqueued[i]).child_features = <<>>
           /\ FirstLoc(enqueued[i]).derived_features = <<>>

\* ----------------------------------------------------------------------- C6

\* the features the parser's fields refer to directly
RootFeatures ==
    (Range(underConstructionTopLevel)
        \cup { underConstructionById[x] : x \in IDs }
        \cup UNION { Range(underConstructionOrphans[i].Parent)
                         \cup Range(underConstructionOrphans[i].Derives_from) :
                     i \in 1..Len(underConstructionOrphans) })
    \ {0}

\* the features reached from F through child_features and derived_features
RECURSIVE Reachable(_)
Reachable(F) ==
    LET G == F \cup UNION { Range(Kids(Self, f)) : f \in F }
    IN  IF G = F THEN F ELSE Reachable(G)

\* the feature lines the parser retains
RetainedLines == UNION { Range(feats[f]) : f \in Reachable(RootFeatures) }

\* C6: memory is capped by bufferSize.  At every point of a parse with a
\* finite bufferSize of at least 1, the feature lines retained by the parser
\* (in the top-level queue, the by-ID map, the orphan map and the child and
\* derived subtrees hanging off them) number at most bufferSize.
C6_MemoryCapped ==
    bufferSize \in 1..MaxBuf => Cardinality(RetainedLines) <= bufferSize

\* ----------------------------------------------------------------------- C7

\* the line objects of the lines that carry ID=x, of the current scope and
\* processed since x was last evicted
Carriers(x) ==
    { n \in 1..Len(lineObjs) :
        /\ x \in Range(lineObjs[n].ID)
        /\ InScope(n)
        /\ lineObjs[n].no >= evictedAt[x] }

\* the locations of feature f are the line objects of N, in input order
LocationsAre(f, N) ==
    /\ Range(feats[f]) = N
    /\ Len(feats[f]) = Cardinality(N)
    /\ \A i, j \in 1..Len(feats[f]) :
           i < j => lineObjs[feats[f][i]].no < lineObjs[feats[f][j]].no

\* C7: multi-location merge.  When the lines that carry ID=x in the current
\* scope since x was last evicted all have the same type, the by-ID map holds
\* for x one Feature whose locations are exactly the line objects of those
\* lines in input order, and none of them is a location of another Feature.
C7_MultiLocationMerge ==
    \A x \in IDs :
        ( /\ ~hung
          /\ Carriers(x) # {}
          /\ \A n, m \in Carriers(x) : lineObjs[n].type = lineObjs[m].type )
        => /\ underConstructionById[x] # 0
           /\ LocationsAre(underConstructionById[x], Carriers(x))
           /\ \A n \in Carriers(x) : FeaturesOf(n) = {underConstructionById[x]}

\* two lines with one ID and one type made one Feature of two locations
C7_Witness ==
    \E x \in IDs :
        /\ underConstructionById[x] # 0
        /\ Len(feats[underConstructionById[x]]) >= 2
        /\ Cardinality(Carriers(x)) >= 2
        /\ \A n, m \in Carriers(x) : lineObjs[n].type = lineObjs[m].type

\* ----------------------------------------------------------------------- C8

\* the message parseError builds for the line the step hands in: the number
\* of the line, the ID and the two types
MismatchMessage(x) ==
    [line |-> calls',
     id |-> x,
     types |-> <<lastCall'.line.type,
                 lineObjs[feats[underConstructionById[x]]
                               [Len(feats[underConstructionById[x]])]].type>>]

\* C8: type-mismatch rejection.  When a processed line carries an ID that is
\* buffered and its type differs from the type of that Feature's locations,
\* the parser stops (eof) and turns to errorCallback; a given errorCallback is
\* called once, with a message that starts with the number of the offending
\* line in the input, and when the errorCallback throws, as the one of
\* parseStringSync does, addLine raises that error to the caller.
C8_TypeMismatchRejected ==
    [][ TypeMismatchStep =>
            \E x \in Range(lastCall'.line.ID) :
                /\ eof'
                /\ lastCall'.errorCallback # "unused"
                /\ lastCall'.errorCallback \in {"throws", "returns"} =>
                       log' = Append(log, [cb |-> "errorCallback",
                                           arg |-> MismatchMessage(x)])
                /\ lastCall'.errorCallback = "throws" =>
                       lastCall'.exc = TypeMismatchError(calls', x)
      ]_vars

\* a throwing errorCallback has just been handed the message for a line that
\* is not the first, and addLine raised the error
C8_Witness ==
    /\ lastCall.op = "addLine"
    /\ lastCall.errorCallback = "throws"
    /\ lastCall.exc.kind = "TypeMismatch"
    /\ lastCall.exc.line = calls
    /\ calls >= 3
    /\ log # <<>>
    /\ log[Len(log)].cb = "errorCallback"
    /\ log[Len(log)].arg.line = calls

\* ----------------------------------------------------------------------- C9

\* an errorCallback was handed a type-mismatch message
ErrorReported == \E i \in 1..Len(log) : log[i].cb = "errorCallback"

\* C9: after a type-mismatch error has been reported the engine is in a
\* terminal state: every later addLine call returns without an exception,
\* calls no callback and changes neither lineNumber nor any other field of
\* the parser or of the features it holds.
C9_TerminalAfterTypeMismatch ==
    [][ (ErrorReported /\ AddLineStep) =>
            /\ UNCHANGED <<engineVars, log, raised, hung>>
            /\ lastCall'.exc = NoExc
      ]_vars

\* an addLine call was made after the error was reported
C9_Witness ==
    /\ lastCall.op = "addLine"
    /\ \E i \in 1..Len(log) :
           log[i].cb = "errorCallback" /\ log[i].arg.line < calls

\* ---------------------------------------------------------------------- C10

\* a flush has raised the referential-integrity error
ReferentialIntegrityRaised ==
    \E i \in 1..Len(raised) : raised[i].kind = "ReferentialIntegrity"

\* C10: after a flush has raised the referential-integrity error the engine
\* is in a terminal state: every later addLine call is ignored (no line is
\* classified or buffered, no callback runs) and no second error is raised.
C10_TerminalAfterReferentialIntegrity ==
    [][ (ReferentialIntegrityRaised /\ AddLineStep) =>
            UNCHANGED <<engineVars, log, raised, hung>>
      ]_vars

\* ---------------------------------------------------------------------- C11

\* the log entry hands an item to featureCallback, directiveCallback,
\* commentCallback or sequenceCallback
DeliversItem(e) ==
    e.cb \in {"featureCallback", "directiveCallback", "commentCallback",
              "sequenceCallback"}

\* the items delivered so far
ItemsDelivered == SelectSeq(log, DeliversItem)

\* C11: no output after an error in incremental parsing.  Once a type-mismatch
\* error has been reported through an errorCallback that returned normally,
\* no later call, addLine or finish, delivers a Feature, Directive, Comment
\* or Sequence: the Features buffered at the time of the error are never
\* emitted.
C11_NoOutputAfterError ==
    [][ (ErrorReported /\ raised = <<>>) => ItemsDelivered' = ItemsDelivered ]_vars

\* ---------------------------------------------------------------------- C12

\* the step hands a feature to featureCallback
FeatureDelivered ==
    \E i \in 1..Len(log') : i > Len(log) /\ log'[i].cb = "featureCallback"

\* C12: a flush that finds dangling references aborts before emitting.  When
\* the orphan map is non-empty at a ###, a FASTA start or finish, the error is
\* raised and none of the Features buffered at that moment is handed to
\* featureCallback.
C12_FlushAbortsBeforeEmitting ==
    [][ (FlushStep /\ underConstructionOrphans # <<>>) =>
            /\ lastCall'.exc.kind = "ReferentialIntegrity"
            /\ ~FeatureDelivered
      ]_vars

\* ---------------------------------------------------------------------- C13

\* the step hands addLine a ##FASTA directive or a '>' line that it
\* classifies, and the flush it makes finds no dangling reference
FastaStartStep ==
    /\ AddLineStep /\ Accepting
    /\ \/ lastCall'.line.first = "gt"
       \/ /\ lastCall'.line.first = "hash" /\ lastCall'.line.hashes = 2
          /\ lastCall'.line.directive = "FASTA"
    /\ underConstructionOrphans = <<>>

\* the step calls no callback but sequenceCallback
OnlySequencesDelivered ==
    /\ Len(log') >= Len(log)
    /\ SubSeq(log', 1, Len(log)) = log
    /\ \A i \in 1..Len(log') : i > Len(log) => log'[i].cb = "sequenceCallback"

\* C13: FASTA mode is terminal.  When a ##FASTA directive or a '>' line is
\* processed with no dangling reference pending, the buffered Features are
\* delivered and nothing else is (the FASTA directive is not handed to
\* directiveCallback), and the parser is in FASTA mode; in FASTA mode no
\* addLine call, whatever its line, calls featureCallback, directiveCallback
\* or commentCallback, counts a line, or changes the queue, the by-ID map, the
\* orphan map or any Feature.
C13_FastaModeTerminal ==
    [][ /\ FastaStartStep =>
               /\ lastCall'.exc = NoExc
               /\ fastaParser'.exists
               /\ log' = log \o Deliveries(underConstructionTopLevel)
               /\ underConstructionTopLevel' = <<>>
        /\ (fastaParser.exists /\ AddLineStep) =>
               /\ OnlySequencesDelivered
               /\ lastCall'.exc = NoExc
               /\ UNCHANGED <<eof, lineNumber, underConstructionTopLevel,
                              underConstructionById, completedReferences,
                              underConstructionOrphans, lineObjs, feats>>
      ]_vars

\* in FASTA mode, entered by a directive that flushed a Feature, a feature
\* line that names a Parent was handed in last and nothing came of it
C13_Witness ==
    /\ fastaParser.exists
    /\ lastCall.op = "addLine"
    /\ lastCall.line.first = "other" /\ lastCall.line.Parent # <<>>
    /\ underConstructionOrphans = <<>>
    /\ \E i \in 1..Len(log) : log[i].cb = "featureCallback"
    /\ \A i \in 1..Len(log) : log[i].cb # "directiveCallback"
    /\ calls > lineNumber

\* ---------------------------------------------------------------------- C14

\* the line is a '>' header: its first non-blank character is '>' and an
\* identifier follows
IsHeader(line) == line.first = "gt" /\ line.seqid # ""

\* the sequenceCallback calls the step makes
NewSequences ==
    LET new == SubSeq(log', Len(log) + 1, Len(log'))
        IsSequence(e) == e.cb = "sequenceCallback"
        entries == SelectSeq(new, IsSequence)
    IN  [ i \in 1..Len(entries) |-> entries[i].arg ]

\* the record in progress before the step, as the one sequence to deliver
RecordInProgress ==
    IF fastaParser.exists /\ fastaParser.currentSequence.defined
    THEN <<fastaParser.currentSequence>>
    ELSE <<>>

\* C14: in FASTA mode every '>' header starts a record that is delivered to
\* sequenceCallback exactly once, at the next header or at finish, in input
\* order.  A header, met in FASTA mode or starting the section implicitly,
\* delivers the record in progress and starts the record of its identifier
\* with an empty sequence; a line that is neither a header nor blank adds its
\* text, whitespace removed, to the record in progress and delivers nothing;
\* a blank line changes nothing; finish delivers the record in progress.
C14_FastaRecords ==
    [][ /\ ( /\ AddLineStep /\ IsHeader(lastCall'.line)
             /\ (fastaParser.exists \/ FastaStartStep) ) =>
               /\ fastaParser'.exists
               /\ fastaParser'.currentSequence =
                      [defined |-> TRUE, id |-> lastCall'.line.seqid, sequence |-> <<>>]
               /\ NewSequences = RecordInProgress
        /\ ( /\ AddLineStep /\ fastaParser.exists /\ ~IsHeader(lastCall'.line) ) =>
               /\ NewSequences = <<>>
               /\ fastaParser'.currentSequence =
                      IF fastaParser.currentSequence.defined
                      THEN [fastaParser.currentSequence EXCEPT
                              !.sequence = @ \o lastCall'.line.text]
                      ELSE fastaParser.currentSequence
        /\ (FinishStep /\ fastaParser.exists) => NewSequences = RecordInProgress
      ]_vars

\* ---------------------------------------------------------------------- C15

\* which of the four item callbacks the caller passes
ItemCallbacks ==
    [featureCallback : BOOLEAN, directiveCallback : BOOLEAN,
     commentCallback : BOOLEAN, sequenceCallback : BOOLEAN]

\* the callbacks flags with errorCallback e
WithErrorCallback(flags, e) ==
    [featureCallback |-> flags.featureCallback,
     directiveCallback |-> flags.directiveCallback,
     commentCallback |-> flags.commentCallback,
     sequenceCallback |-> flags.sequenceCallback,
     errorCallback |-> e]

AllItemCallbacks ==
    [featureCallback |-> TRUE, directiveCallback |-> TRUE,
     commentCallback |-> TRUE, sequenceCallback |-> TRUE]

\* the parser as it stands, before the calls it is about to get
SelfAfresh == [Self EXCEPT !.log = <<>>]

\* the parser as it stands when it was driven with flags so far: its FASTA
\* parser holds the sequenceCallback it was made with
SelfUnder(flags) ==
    [SelfAfresh EXCEPT !.fastaParser.seqCallback = @ /\ flags.sequenceCallback]

\* the callback calls of entries that are made when only flags are passed
Kept(entries, flags) ==
    LET Passed(e) ==
            /\ e.cb = "featureCallback" => flags.featureCallback
            /\ e.cb = "directiveCallback" => flags.directiveCallback
            /\ e.cb = "commentCallback" => flags.commentCallback
            /\ e.cb = "sequenceCallback" => flags.sequenceCallback
    IN  SelectSeq(entries, Passed)

\* the parser r without its callback log and without the callback its FASTA
\* parser holds
Engine(r) == [r EXCEPT !.log = <<>>, !.fastaParser.seqCallback = FALSE]

\* the call that ended in part under flags did what the call that ended in
\* full did under all callbacks, less the deliveries flags suppress
OnlySuppresses(full, part, flags) ==
    /\ Engine(part) = Engine(full)
    /\ part.log = Kept(full.log, flags)

\* C15: disabling an item kind only suppresses delivery.  From every state a
\* parser reaches, a call of addLine or finish that the caller can make next,
\* made with any subset of the item callbacks, leaves the parser, the
\* Features and the exception thrown (type mismatch or referential integrity,
\* with its line and identifiers) exactly as the same call made with all four
\* callbacks does, and calls the callbacks it was given exactly as that call
\* does.
C15_DisablingOnlySuppresses ==
    \A flags \in ItemCallbacks, e \in ErrorCallbacks :
        (~finished /\ ~hung) =>
        /\ \A line \in alphabet :
               calls < MaxLines =>
               OnlySuppresses(
                   addLine(SelfAfresh, line, WithErrorCallback(AllItemCallbacks, e)),
                   addLine(SelfUnder(flags), line, WithErrorCallback(flags, e)),
                   flags)
        /\ OnlySuppresses(
               finish(SelfAfresh, WithErrorCallback(AllItemCallbacks, e)),
               finish(SelfUnder(flags), WithErrorCallback(flags, e)),
               flags)

\* a parse that delivered a Feature, a directive, a comment and a sequence
C15_Witness ==
    /\ finished
    /\ \A k \in {"featureCallback", "directiveCallback", "commentCallback",
                 "sequenceCallback"} :
           \E i \in 1..Len(log) : log[i].cb = k

\* ---------------------------------------------------------------------- C16

\* the options o without its bufferSize
WithoutBufferSize(o) == [k \in DOMAIN o \ {"bufferSize"} |-> o[k]]

\* the step hands featureCallback no Feature that carries an ID
NoIdentifiedFeatureDelivered ==
    \A i \in 1..Len(log') :
        (i > Len(log) /\ log'[i].cb = "featureCallback") =>
            lineObjs'[feats'[log'[i].arg][1]].ID = <<>>

\* C16: parseStringSync always parses with an unbounded buffer, whatever
\* bufferSize option it is given.  Its parser's bufferSize is Infinity, no
\* identifier is ever evicted, a Feature that carries an ID is delivered only
\* by a ###, a FASTA start or the end of input, and two calls whose options
\* differ in bufferSize alone make the same parser and pass the same
\* callbacks, so that they return the same items.
C16_SyncParseUnbounded ==
    [][ /\ bufferSize' = Infinity
        /\ \A id \in IDs : evictedAt'[id] = 0
        /\ ~hung'
        /\ ~FlushStep => NoIdentifiedFeatureDelivered
        /\ \A o1, o2 \in ParseOptions :
               WithoutBufferSize(o1) = WithoutBufferSize(o2) =>
                   /\ parseStringSyncParser(_processParseOptions(o1))
                          = parseStringSyncParser(_processParseOptions(o2))
                   /\ parseStringSyncCallbacks(_processParseOptions(o1))
                          = parseStringSyncCallbacks(_processParseOptions(o2))
      ]_vars

\* parseStringSync holds more top-level Features than any finite bufferSize
\* of the model allows, and has delivered none
C16_Witness ==
    /\ bufferSize = Infinity
    /\ Len(underConstructionTopLevel) > MaxBuf
    /\ log = <<>>
    /\ \A i \in 1..Len(underConstructionTopLevel) :
           FirstLoc(underConstructionTopLevel[i]).ID # <<>>

\* ---------------------------------------------------------------------- C17

\* C17: escaping round-trips.  Whatever string the caller starts from, one
\* that holds % and two hexadecimal digits included, unescape gives it back
\* from what escape made of it, and from what escapeColumn made of it.
C17_EscapeRoundTrips ==
    (applied = <<"escape", "unescape">>
        \/ applied = <<"escapeColumn", "unescape">>) => stringVal = rawVal

\* "%41" has been escaped and unescaped
C17_Witness ==
    /\ rawVal = <<37, 52, 49>>
    /\ applied = <<"escape", "unescape">>
    /\ stringVal = rawVal

\* ---------------------------------------------------------------------- C18

\* parseStringSync has returned the items of a text it accepted
Parsed == finished /\ raised = <<>> /\ ~hung

\* formatSync(parseStringSync(text)) for the text parsed
FormattedOnce == formatSync(Self)

\* parseStringSync of the formatted text, under the same options
ParsedAgain ==
    parseStringSync(FormattedOnce,
                    [disableDerivesFromReferences |-> disableDerivesFromReferences])

\* C18: formatting is idempotent under re-parsing.  When parseStringSync
\* accepts a text (every reference resolves and the types agree), the text
\* formatSync makes of its items is accepted too and formats to itself:
\* formatSync(parseStringSync(formatSync(parseStringSync(text))))
\* = formatSync(parseStringSync(text)).
C18_FormatIdempotent ==
    Parsed => /\ Running(ParsedAgain)
              /\ formatSync(ParsedAgain) = FormattedOnce

\* ---------------------------------------------------------------------- C19

\* the formatter was handed an item
TransformStep == Len(chunks') = Len(chunks) + 1

\* the item the step handed it
Chunk == chunks'[Len(chunks')]

\* the strings the step enqueued
Written == SubSeq(pushed', Len(pushed) + 1, Len(pushed'))

\* the number of version lines among strs
VersionLines(strs) == Cardinality({ i \in 1..Len(strs) : strs[i] = VersionLine })

\* the step enqueued a version line of its own, ahead of the item's string
InsertsVersion ==
    /\ Written[1] = VersionLine
    /\ VersionLines(Written) = VersionLines(<<formatChunk(Chunk)>>) + 1

\* the step enqueued no version line but the item's own, if it is one
InsertsNoVersion == VersionLines(Written) = VersionLines(<<formatChunk(Chunk)>>)

IsVersionDirective(chunk) == chunk.kind = "directive" /\ chunk.name = "gff-version"

\* C19: a GFFFormattingTransformer with insertVersionDirective enabled
\* enqueues '##gff-version 3' ahead of the first item exactly when that item
\* is not a gff-version directive, and inserts no version directive with
\* any later item.
C19_VersionDirectiveFirstOnly ==
    [][ (TransformStep /\ insertVersionDirective) =>
            IF chunks = <<>> /\ ~IsVersionDirective(Chunk)
            THEN InsertsVersion
            ELSE InsertsNoVersion ]_vars

\* a version line was inserted ahead of a first item, and two more items
\* followed, the last a directive that is not gff-version
C19_Witness ==
    /\ insertVersionDirective
    /\ Len(chunks) = 3
    /\ ~IsVersionDirective(chunks[1])
    /\ chunks[3].kind = "directive" /\ ~IsVersionDirective(chunks[3])
    /\ pushed[1] = VersionLine
    /\ VersionLines(pushed) = 1

\* ---------------------------------------------------------------------- C20

\* C20: formatFile writes a '##gff-version 3' line first whenever the first
\* item of the stream is not a gff-version directive, whatever its kind:
\* feature, comment, sequence or another directive.
C20_FormatFileVersionFirst ==
    [][ (TransformStep /\ insertVersionDirective /\ chunks = <<>>
            /\ ~IsVersionDirective(Chunk)) => InsertsVersion ]_vars

\* ---------------------------------------------------------------------- C21

\* the places of the sync marks in the output
MarksAt == { i \in 1..Len(pushed) : pushed[i] = SyncMark }

\* the place of the sync mark before place i, 0 when there is none
MarkBefore(i) ==
    IF \E j \in MarksAt : j < i
    THEN CHOOSE j \in MarksAt : j < i /\ \A k \in MarksAt : k < i => k <= j
    ELSE 0

\* the number of lines written after place from and before place to
RECURSIVE LinesBetween(_, _)
LinesBetween(from, to) ==
    IF from + 1 >= to THEN 0
    ELSE Newlines(pushed[from + 1]) + LinesBetween(from + 1, to)

\* C21: in the output of the stream formatter, at least minSyncLines
\* newline-terminated lines stand between two consecutive '###' marks, and
\* before the first one.
C21_SyncMarksSpaced ==
    \A i \in MarksAt : LinesBetween(MarkBefore(i), i) >= minLinesBetweenSyncMarks

\* two sync marks were written, two lines or more apart
C21_Witness ==
    /\ Cardinality(MarksAt) = 2
    /\ minLinesBetweenSyncMarks = 1
    /\ \E i \in MarksAt : MarkBefore(i) # 0 /\ LinesBetween(MarkBefore(i), i) >= 2

\* ---------------------------------------------------------------------- C22

\* no Derives_from value has left a trace in the parser
NoDerivesTrace ==
    /\ \A n \in 1..Len(lineObjs) : lineObjs[n].derived_features = <<>>
    /\ \A i \in 1..Len(underConstructionOrphans) :
           underConstructionOrphans[i].Derives_from = <<>>
    /\ \A r \in completedReferences : r[2] # "Derives_from"

\* a line the parser was handed names t as a Parent
NamedAsParent(t) ==
    \E n \in 1..Len(lineObjs) : t \in Range(lineObjs[n].Parent)

\* the line of the step has a Derives_from and neither ID nor Parent
OnlyDerives(line) ==
    line.ID = <<>> /\ line.Parent = <<>> /\ line.Derives_from # <<>>

\* the step handed featureCallback one new Feature, the one location of which
\* is the line of the step
DeliveredAsSingleton ==
    /\ Len(log') = Len(log) + 1
    /\ log'[Len(log')].cb = "featureCallback"
    /\ log'[Len(log')].arg > Len(feats)
    /\ feats'[log'[Len(log')].arg] = <<Len(lineObjs')>>
    /\ Len(lineObjs') = Len(lineObjs) + 1
    /\ lastCall'.exc = NoExc

\* C22: with disableDerivesFromReferences set, Derives_from values are
\* ignored entirely.  They make no derived_features link, no orphan entry and
\* no completed link; a referential-integrity error names Parent targets
\* only; and a line the only reference attribute of which is Derives_from (no
\* ID, no Parent) is delivered in its own addLine call as a singleton Feature.
C22_DerivesFromIgnored ==
    [][ disableDerivesFromReferences =>
            /\ NoDerivesTrace'
            /\ lastCall'.exc.kind = "ReferentialIntegrity" =>
                   \A t \in Range(lastCall'.exc.ids) : NamedAsParent(t)
            /\ (FeatureStep /\ OnlyDerives(lastCall'.line)) => DeliveredAsSingleton
      ]_vars

\* with the flag set: a line with ID and Derives_from=a came after the line
\* of a and is buffered without a link, and a line with Derives_from alone
\* was delivered
C22_Witness ==
    /\ disableDerivesFromReferences
    /\ underConstructionById["a"] # 0
    /\ underConstructionById["c"] # 0
    /\ FirstLoc(underConstructionById["c"]).no > FirstLoc(underConstructionById["a"]).no
    /\ \E i \in 1..Len(log) :
           /\ log[i].cb = "featureCallback"
           /\ OnlyDerives(FirstLoc(log[i].arg))

\* ---------------------------------------------------------------------- C23

\* the lines met on the way through a Feature: each location, then its
\* children, then the Features derived from it
RECURSIVE LinesMet(_)
RECURSIVE LinesMetIn(_)
LinesMet(locations) ==
    IF locations = <<>> THEN <<>>
    ELSE <<FormattedFeatureLine(lineObjs[Head(locations)])>>
             \o LinesMetIn(lineObjs[Head(locations)].child_features)
             \o LinesMetIn(lineObjs[Head(locations)].derived_features)
             \o LinesMet(Tail(locations))

LinesMetIn(features) ==
    IF features = <<>> THEN <<>>
    ELSE LinesMet(feats[Head(features)]) \o LinesMetIn(Tail(features))

\* strs without the elements that occur earlier in it
FirstOccurrences(strs) ==
    SelectSeq([i \in 1..Len(strs) |-> [at |-> i, str |-> strs[i]]],
              LAMBDA e : \A j \in 1..(e.at - 1) : strs[j] # e.str)

\* the Features handed to featureCallback
Delivered == { log[i].arg : i \in { j \in 1..Len(log) : log[j].cb = "featureCallback" } }

\* C23: formatFeature writes each distinct line at most once per call, at
\* its first occurrence.  Of a delivered Feature it writes the lines met on
\* the way through its locations, their children and the Features derived
\* from them, each where it is met first and nowhere else: a Feature that is
\* child and derived Feature of one parent, or hangs off several locations
\* of the Feature, is rendered once.
C23_FormatFeatureOnce ==
    \A g \in Delivered :
        LET str == formatFeatureArray(Self, feats[g])
            met == FirstOccurrences(LinesMet(feats[g]))
        IN  /\ \A i, j \in 1..Len(str) : i # j => str[i] # str[j]
            /\ Len(str) = Len(met)
            /\ \A i \in 1..Len(str) : str[i] = met[i].str

\* a gene of two locations was delivered, both of which hold one Feature as
\* child and as derived Feature
C23_Witness ==
    \E g \in Delivered :
        /\ Len(feats[g]) = 2
        /\ \A i \in 1..2 :
               /\ lineObjs[feats[g][i]].child_features # <<>>
               /\ \E f \in Range(lineObjs[feats[g][i]].child_features) :
                      f \in Range(lineObjs[feats[g][i]].derived_features)
        /\ Len(LinesMet(feats[g])) > Len(formatFeatureArray(Self, feats[g]))

\* ---------------------------------------------------------------------- C24

\* C24: after every addLine call, for every bufferSize of 1 or more, the
\* top-level queue holds at most bufferSize Features.
C24_QueueWithinBufferSize ==
    bufferSize >= 1 => Len(underConstructionTopLevel) <= bufferSize

\* the queue is full after a Feature was evicted from it to make room
C24_Witness ==
    /\ bufferSize = MaxBuf
    /\ Len(underConstructionTopLevel) = bufferSize
    /\ \E id \in IDs : evictedAt[id] # 0
    /\ ~finished

\* ---------------------------------------------------------------------- C25

\* the number of times Feature g was handed to featureCallback
TimesDelivered(g) ==
    Cardinality({ i \in 1..Len(log) :
                    log[i].cb = "featureCallback" /\ log[i].arg = g })

\* the parse ended with a finish that raised no error
EndedWell == finished /\ ~hung /\ lastCall.op = "finish" /\ lastCall.exc = NoExc

\* C25: each top-level Feature is handed to the sink exactly once.  On a
\* parse that ends with a finish that raises no error, every Feature that was
\* ever placed in the top-level queue has been passed to featureCallback
\* exactly once, by an eviction or by a flush, never by both and never twice.
C25_DeliveredExactlyOnce ==
    EndedWell => \A i \in 1..Len(enqueued) : TimesDelivered(enqueued[i]) = 1

\* a parse ended well in which one Feature left the queue by an eviction and
\* another, the ID of which was never evicted, by a flush
C25_Witness ==
    /\ EndedWell
    /\ \E i, j \in 1..Len(enqueued) :
           /\ evictedAt[FirstLoc(enqueued[i]).ID[1]] # 0
           /\ evictedAt[FirstLoc(enqueued[j]).ID[1]] = 0

\* ---------------------------------------------------------------------- C26

\* the indices of the parser are empty after the step
IndicesEmptied ==
    /\ underConstructionTopLevel' = <<>>
    /\ \A id \in IDs : underConstructionById'[id] = 0
    /\ completedReferences' = {}
    /\ underConstructionOrphans' = <<>>

\* a line with ID=p came before the last flush and none since
SeenBeforeFlushOnly(p) ==
    /\ \E m \in 1..Len(lineObjs) : p \in Range(lineObjs[m].ID) /\ ~InScope(m)
    /\ ~DefinedInScope(p)

\* the step made a new Feature for p, the one location of which is the line
\* of the step
StartsFresh(p) ==
    /\ Len(feats') = Len(feats) + 1
    /\ underConstructionById'[p] = Len(feats')
    /\ feats'[Len(feats')] = <<Len(lineObjs')>>

\* C26: after a flush that raises no error the top-level queue, the by-ID
\* map, the completed-link set and the orphan map are all empty, so an ID seen
\* before the flush is new afterwards: a later line with that ID starts a
\* fresh one-location Feature instead of adding a location.
C26_FlushClearsIndices ==
    [][ /\ (FlushStep /\ lastCall'.exc = NoExc /\ ~hung') => IndicesEmptied
        /\ \A p \in IDs :
               (/\ FeatureStep
                /\ lastCall'.line.ID = <<p>>
                /\ SeenBeforeFlushOnly(p)
                /\ lastCall'.exc = NoExc
                /\ ~hung') => StartsFresh(p)
      ]_vars

\* a Feature with ID=a was delivered by a ### that raised nothing, and a line
\* with ID=a that came after it made a second Feature of one location
C26_Witness ==
    /\ scopeMark > 0
    /\ raised = <<>>
    /\ underConstructionById["a"] # 0
    /\ Len(feats[underConstructionById["a"]]) = 1
    /\ InScope(feats[underConstructionById["a"]][1])
    /\ \E i \in 1..Len(log) :
           /\ log[i].cb = "featureCallback"
           /\ log[i].arg # underConstructionById["a"]
           /\ FirstLoc(log[i].arg).ID = <<"a">>
           /\ evictedAt["a"] = 0

\* ---------------------------------------------------------------------- C27

\* C27: every Feature passed to featureCallback has the same type on all of
\* its locations, whichever errorCallback (throwing, non-throwing or absent)
\* the caller supplied.
C27_DeliveredTypesAgree ==
    \A g \in Delivered :
        \A i, j \in 1..Len(feats[g]) :
            lineObjs[feats[g][i]].type = lineObjs[feats[g][j]].type

\* ---------------------------------------------------------------------- C28

\* no element of seq occurs twice in it
NoRepeat(seq) == \A i, j \in 1..Len(seq) : i # j => seq[i] # seq[j]

\* C28: the same link is never recorded twice.  After any sequence of lines
\* the child_features list and the derived_features list of every location
\* hold a given Feature at most once, also when a multi-location child
\* repeats its Parent or Derives_from on each of its lines, and whether the
\* line of the target comes before, between or after the lines of the child.
C28_LinksRecordedOnce ==
    \A n \in 1..Len(lineObjs) :
        /\ NoRepeat(lineObjs[n].child_features)
        /\ NoRepeat(lineObjs[n].derived_features)

\* ---------------------------------------------------------------------- C29

\* addLine classifies a line that starts with n or more '#'
HashStep(n) ==
    /\ AddLineStep
    /\ Accepting
    /\ lastCall'.line.first = "hash"
    /\ lastCall'.line.hashes >= n

\* the step ran the full flush: the queue and the by-ID map are empty and
\* the scope ends with the line of the step
Flushed ==
    /\ underConstructionTopLevel' = <<>>
    /\ \A id \in IDs : underConstructionById'[id] = 0
    /\ scopeMark' = lineNumber'

\* the step handed nothing to commentCallback or directiveCallback
NoCommentOrDirective ==
    \A i \in (Len(log) + 1)..Len(log') :
        log'[i].cb \notin {"commentCallback", "directiveCallback"}

\* the step handed the line to commentCallback and left the parser's
\* Features where they were
DeliveredAsComment ==
    /\ log' = Append(log, [cb |-> "commentCallback", arg |-> lastCall'.line.text])
    /\ underConstructionTopLevel' = underConstructionTopLevel
    /\ underConstructionById' = underConstructionById
    /\ scopeMark' = scopeMark

\* C29 as stated: any line whose first non-blank characters are three or
\* more '#' is a synchronization mark: it triggers a full flush and is never
\* delivered as a comment or a directive.
C29_ThreeOrMoreHashesSync ==
    [][ HashStep(3) => (Flushed /\ NoCommentOrDirective) ]_vars

\* C29 amended: a line whose first non-blank characters are exactly three
\* '#' is a synchronization mark, which triggers a full flush and is not
\* delivered as a comment or a directive; a line that starts with four or
\* more '#' is delivered as a comment and flushes nothing.
C29_ExactlyThreeHashesSync ==
    [][ /\ (HashStep(3) /\ lastCall'.line.hashes = 3) =>
               (Flushed /\ NoCommentOrDirective)
        /\ HashStep(4) => DeliveredAsComment
      ]_vars

\* a #### line was delivered as a comment while a Feature stayed in the
\* queue, after a ### had flushed another
C29_Witness ==
    /\ lastCall.op = "addLine"
    /\ lastCall.line = FourHashLine
    /\ underConstructionTopLevel # <<>>
    /\ scopeMark > 0
    /\ log # <<>>
    /\ log[Len(log)].cb = "commentCallback"
    /\ \E i \in 1..Len(log) : log[i].cb = "featureCallback"


\* ---------------------------------------------------------------------- C30

\* the line has no ID, no Parent and no Derives_from
Unreferenced(line) ==
    /\ line.ID = <<>>
    /\ line.Parent = <<>>
    /\ line.Derives_from = <<>>

\* the step made one new Feature of one location, the line of the step, and
\* handed it to featureCallback before the call returned
EmittedAtOnce ==
    /\ Len(lineObjs') = Len(lineObjs) + 1
    /\ Len(feats') = Len(feats) + 1
    /\ feats'[Len(feats')] = <<Len(lineObjs')>>
    /\ lineObjs'[Len(lineObjs')].no = lineNumber'
    /\ log' = Append(log, [cb |-> "featureCallback", arg |-> Len(feats')])
    /\ lastCall'.exc = NoExc

\* C30: a feature line with no ID, no Parent and no Derives_from is delivered
\* to featureCallback as a one-location Feature during its own addLine call,
\* evicts nothing, and leaves the top-level queue, the by-ID map, the orphan
\* map and the completed references as they were.
C30_UnreferencedLineEmittedAtOnce ==
    [][ (FeatureStep /\ Unreferenced(lastCall'.line)) =>
            /\ EmittedAtOnce
            /\ UNCHANGED <<underConstructionTopLevel, underConstructionById,
                           underConstructionOrphans, completedReferences,
                           evictedAt, enqueued>>
      ]_vars

\* a line with no ID and no reference was delivered while the queue was at
\* its limit and an orphan was waiting
C30_Witness ==
    /\ lastCall.op = "addLine"
    /\ lastCall.line.first = "other"
    /\ Unreferenced(lastCall.line)
    /\ bufferSize >= 1
    /\ Len(underConstructionTopLevel) = bufferSize
    /\ underConstructionOrphans # <<>>
    /\ log # <<>>
    /\ log[Len(log)].cb = "featureCallback"
    /\ feats[log[Len(log)].arg] = <<Len(lineObjs)>>
    /\ lineObjs[Len(lineObjs)].no = lineNumber


\* ---------------------------------------------------------------------- C31

\* C31: within a single format call, formatSync over the items delivered or
\* the formatting of one Feature item as a transformer does it, no feature
\* line is written twice: a line identical to one already written in that
\* call is skipped, also when a child is reachable through more than one
\* parent or through more than one location of its parent.
C31_NoLineWrittenTwice ==
    /\ NoRepeat(formatSync(Self))
    /\ \A g \in Delivered : NoRepeat(formatItem(Self, feats[g]))


\* ---------------------------------------------------------------------- C32

\* where the formatter enqueued ##FASTA, and where the string of a Sequence
FastaAt == { i \in 1..Len(pushed) : pushed[i] = FastaLine }

SequenceAt ==
    { i \in 1..Len(pushed) :
        \E c \in FormatItems : c.kind = "sequence" /\ pushed[i] = formatChunk(c) }

\* the Sequence items the formatter was handed
SequenceChunks == { i \in 1..Len(chunks) : chunks[i].kind = "sequence" }

\* C32: a stream formatter emits ##FASTA exactly once, immediately before
\* the string of the first Sequence item it receives, and never for a
\* stream that has no Sequence.
C32_FastaDirectiveOnce ==
    /\ Cardinality(SequenceAt) = Cardinality(SequenceChunks)
    /\ Cardinality(FastaAt) = (IF SequenceChunks = {} THEN 0 ELSE 1)
    /\ \A i \in FastaAt :
           /\ i + 1 \in SequenceAt
           /\ \A j \in SequenceAt : j > i

\* two Sequences went through a formatter that had written other items
\* first, and a version directive of its own
C32_Witness ==
    /\ Cardinality(SequenceChunks) >= 2
    /\ chunks[1].kind # "sequence"
    /\ pushed[1] = VersionLine
    /\ chunks[1].kind # "directive"
    /\ \E i \in FastaAt : i > 2


\* ---------------------------------------------------------------------- C33

\* C33: parseAttributes splits each ';'-separated entry at its first '='
\* only: the key is the text before the first '=' and the value is all the
\* text after it, so that the entry k=a=a gives k the value a=a.
C33_SplitAtFirstEquals ==
    applied = <<"parseAttributes">> =>
        stringVal = parseAttributesAtFirst(rawVal)


\* ---------------------------------------------------------------------- C34

\* C34: all locations of one Feature carry the same child_features list and
\* the same derived_features list when the Feature is delivered, whatever
\* the order in which the lines of the parent and of the children came.
\* The parser's buffer is unbounded here: a Feature is delivered by a flush
\* and no line touches it afterwards.
C34_LocationsShareLinks ==
    \A g \in Delivered :
        \A i, j \in 1..Len(feats[g]) :
            /\ lineObjs[feats[g][i]].child_features
                   = lineObjs[feats[g][j]].child_features
            /\ lineObjs[feats[g][i]].derived_features
                   = lineObjs[feats[g][j]].derived_features


\* ---------------------------------------------------------------------- C35

\* C35: every addLine call and every finish call terminates, for every
\* bufferSize >= 0 and every input, inputs whose Parent and Derives_from
\* references form a cycle or refer to the line itself included: no call
\* is made that never returns, and none is cut off by the stack overflow of
\* a recursion without end.
C35_EveryCallTerminates ==
    /\ ~hung
    /\ \A i \in 1..Len(raised) : raised[i].kind # "RangeError"


\* ---------------------------------------------------------------------- C36

\* the Features reachable from the Features of fs through child_features
\* and derived_features
RECURSIVE ReachableFrom(_)
ReachableFrom(fs) ==
    LET next == fs \cup UNION { Range(Kids(Self, f)) : f \in fs }
    IN  IF next = fs THEN fs ELSE ReachableFrom(next)

\* the feature lines that are a location of one of the Features fs
LocationsOf(fs) == UNION { Range(feats[f]) : f \in fs }

\* finish has returned and the parse reported no error of any kind
FinishedWithoutError ==
    /\ EndedWell
    /\ raised = <<>>
    /\ \A i \in 1..Len(log) : log[i].cb # "errorCallback"

\* C36: no feature line is silently lost.  When finish returns without
\* error, the buffer being unbounded, every feature line of the input is a
\* location of a Feature that was handed to featureCallback or that is
\* reachable from such a Feature through child_features and
\* derived_features.
C36_NoLineLost ==
    (FinishedWithoutError /\ bufferSize = Infinity) =>
        \A n \in 1..Len(lineObjs) : n \in LocationsOf(ReachableFrom(Delivered))


\* ---------------------------------------------------------------------- C37

\* line object n names id as its Parent or, as far as the engine reads it,
\* as its Derives_from
Names(n, id) ==
    id \in Range(lineObjs[n].Parent) \cup Range(EffectiveDerives(lineObjs[n]))

\* the orphan map holds under id a Feature with a location that names id,
\* although an earlier line of the same scope carried the ID
OrphanOfDefinedTarget(id) ==
    \E i \in 1..Len(underConstructionOrphans) :
        /\ underConstructionOrphans[i].id = id
        /\ \E f \in Range(underConstructionOrphans[i].Parent)
                        \cup Range(underConstructionOrphans[i].Derives_from) :
               \E n \in Range(feats[f]) :
                   /\ Names(n, id)
                   /\ \E m \in 1..(n - 1) :
                          InScope(m) /\ id \in Range(lineObjs[m].ID)

\* C37: with a finite bufferSize, a line whose Parent or Derives_from target
\* was defined earlier in the same scope is attached to that target and
\* gives no referential-integrity error, whatever evictions came between the
\* two lines: it never waits in the orphan map for a target that an earlier
\* line of the scope defined.
C37_DefinedTargetNeverOrphan ==
    (bufferSize # Infinity /\ ~hung) =>
        \A id \in IDs : ~OrphanOfDefinedTarget(id)


\* ---------------------------------------------------------------------- C38

\* the step left Feature g as it was: its locations, and the child_features
\* and derived_features of each of them
Untouched(g) ==
    /\ feats'[g] = feats[g]
    /\ \A n \in Range(feats[g]) : lineObjs'[n] = lineObjs[n]

\* C38: once a Feature has been passed to featureCallback, no later addLine
\* call modifies it or any Feature reachable from it: no location is
\* appended and no child or derived link is added, also for lines that
\* carry several ID values.
C38_DeliveredIsFrozen ==
    [][ AddLineStep => \A g \in ReachableFrom(Delivered) : Untouched(g) ]_vars


\* ---------------------------------------------------------------------- C39

\* how many of the four tests of addLine the line passes
TestsPassed(line) ==
    Cardinality({ k \in 1..4 :
                    \/ k = 1 /\ featureLine(line)
                    \/ k = 2 /\ hashLine(line)
                    \/ k = 3 /\ blankLine(line)
                    \/ k = 4 /\ fastaHeaderLine(line) })

\* C39: the classification of addLine is total and exclusive.  Every line is
\* exactly one of feature line, '#' line, blank line and '>' header, and the
\* branch that raises the parse error is taken for no line.
C39_ClassificationTotal ==
    applied = <<"addLine">> =>
        /\ TestsPassed(rawVal) = 1
        /\ stringVal # <<"parse error">>

\* a line of blanks followed by a character that is neither '#' nor '>', and
\* then a '#', was taken for a feature line
C39_Witness ==
    /\ applied = <<"addLine">>
    /\ stringVal = <<"feature">>
    /\ Len(rawVal) >= 3
    /\ rawVal[1] \in WhiteSpace
    /\ 35 \in Range(rawVal)


\* ---------------------------------------------------------------------- C40

\* C40: after the stream formatter has emitted ##FASTA it emits no ###
\* synchronization mark: no mark is written between or after the Sequence
\* records.
C40_NoSyncMarkAfterFasta ==
    \A i \in FastaAt :
        \A j \in (i + 1)..Len(pushed) : pushed[j] # SyncMark

=============================================================================
